---- MODULE Spec2Model ----
(***************************************************************************)
(* Terrain synthesizer of clap (src/core/terrain.c): the cellular          *)
(* automaton engine, the BSP amplitude partitioner, the seed-height        *)
(* generator, the heightfield builder and the triangulated height query.   *)
(*                                                                         *)
(* Floats are modelled as exact rationals kept as scaled integers; the     *)
(* scale of every quantity is stated where it is defined.                  *)
(***************************************************************************)
EXTENDS Integers, Sequences, FiniteSets, TLC

VARIABLES
    \* ---- cellular automaton engine (cell_aut_step, ca_gen_maze) ----
    arr,        \* unsigned char *arr : index y * side + x -> cell value
    arr0,       \* history: the grid as it was when the running iteration started
    ca,         \* const struct cell_automaton *ca : the rule being stepped
    caSide,     \* int side
    ci, cj,     \* loop counters i, j of cell_aut_step
    caStep,     \* loop counter step of ca_gen_maze
    caPhase,    \* 0: maze rule, 1..: index+1 into ca_instors
    caPc,       \* "seed" | "cell" | "iter" | "done"
    \* ---- BSP partitioner (bsp_process, bsp_part_one) ----
    bsp,        \* the nodes: path from the root (0: ->a, 1: ->b) -> struct bsp_part
    bspStack,   \* the pending calls of the recursion, innermost first
    bspPc,      \* "run" | "done" | "sigfpe"
    \* ---- terrain and height query (struct terrain, terrain_height) ----
    t,          \* struct terrain: [seed, map, map0, x, y, z, side, nr_vert]
    qx, qz,     \* the arguments x, z of the last terrain_height call, over QDen
    qRet,       \* what the call returned: [kind, v], v over QDen * t.side
                \* (terrain_normal: v is the vector n before vec3_norm)
    qReads,     \* the indices of t.map the call read
    qPc,        \* "idle" | "ret" | "nret": no call yet | terrain_height is
                \* over | terrain_normal is over
    \* ---- the process-wide generator of srand48 / drand48 / lrand48 ----
    rng,        \* the generator's state X
    rhx, rhz,   \* the arguments x, z of the last get_rand_height call
    rhRet,      \* what it returned, over RngMod
    rhFirst,    \* history: the first get_rand_height call, [x, z, ret]
    \* ---- terrain_init_square_landscape ----
    bPc,        \* "idle" | "maze" | "seed" | "bsp" | "map" | "free" | "done"
    bArgs,      \* the arguments of the running call: [x, y, z, side, nr_v]
    maze,       \* unsigned char *maze
    built,      \* history: the first terrain built, [seed, args, map]
    bLog,       \* history: the steps the running call has finished, in order
    \* ---- the placement of instantiators ----
    instor,     \* s->instor: the list of [name, dx, dz, dy], dx and dz over QDen
    pli, plj,   \* loop counters i, j of the placement loop
    plPc,       \* "rules" | "place" | "done"
    \* ---- the fill of t->map, its cells taken in any order ----
    fillOrd,    \* the indices of t->map written so far, in the order written
    \* ---- reference counts (test.c) ----
    refs,       \* object -> [pc, count, magic, gets, puts]
    dropcount,  \* the calls of test_drop that freed their object
    failcount,  \* the calls of test_drop that found the magic overwritten
    \* ---- the list of list_test0 ----
    lmem,       \* [next, prev]: the links of the head (0) and of the entries
    lapp,       \* the entries appended so far, in the order appended
    lcur,       \* the entry list_for_each_entry stands at
    lseen,      \* the values e->i the loop has visited
    lPc,        \* "decl" | "append" | "iter" | "done" | "off"
    \* ---- terrain_init_square_landscape: the mesh ----
    mPc,        \* "vx" | "idx" | "done" | "off"
    mArgs,      \* the arguments x, y, z, side, nr_v
    mi, mj,     \* the loop counters i and j
    mit,        \* the counter it: vertices or indices written
    mbottom,    \* bottom: the number of vertices written
    mvx,        \* the vertex written last and the entry of t->map read for it
    midx,       \* the six indices written last, as the index buffer holds them
    \* ---- the hashmap (util.c) ----
    hm,         \* [nr_buckets, buckets, list]: struct hashmap
    hPc,        \* "decl" | "ready" | "rejected" | "fault" | "off"
    hRet,       \* the last call: [op, key, ret]
    hMap        \* the partial map the calls so far describe

caVars == <<arr, arr0, ca, caSide, ci, cj, caStep, caPhase, caPc>>
bspVars == <<bsp, bspStack, bspPc>>
qVars == <<t, qx, qz, qRet, qReads, qPc>>
rngVars == <<rng, rhx, rhz, rhRet, rhFirst>>
buildVars == <<bPc, bArgs, maze, built, bLog>>
placeVars == <<instor, pli, plj, plPc>>
fillVars == <<fillOrd>>
refVars == <<refs, dropcount, failcount>>
listVars == <<lmem, lapp, lcur, lseen, lPc>>
meshVars == <<mPc, mArgs, mi, mj, mit, mbottom, mvx, midx>>
hashVars == <<hm, hPc, hRet, hMap>>
vars == <<caVars, bspVars, qVars, rngVars, buildVars, placeVars, fillVars,
          refVars, listVars, meshVars, hashVars>>

(***************************************************************************)
(* Bounds of the model.                                                    *)
(***************************************************************************)
MaxMazeSide == 3
MaxRoot == 5
MaxRes == 3         \* largest nr_vert of a queried terrain
MaxSide == 3        \* largest side of a queried terrain
RngBits == 10       \* the generator keeps RngBits bits of state instead of 48
MaxSeed == 3        \* the seeds (tv_nsec) run over 0 .. MaxSeed
MaxCell == 1        \* get_rand_height is called for x, z in 0 .. MaxCell
MaxBuildRes == 9    \* largest nr_v of a terrain built
MaxPlaceSide == 4   \* largest maze side of a terrain that gets its placements
MaxHoles == 3       \* most empty cells of such a maze when ca_gen_maze returns
MaxObjs == 2        \* reference-counted objects alive together
MaxGets == 3        \* ref_get calls on one object
MaxList == 4        \* entries appended to the list
MaxMeshRes == 257   \* largest nr_v of a terrain meshed
MaxKey == 2         \* keys of the hashmap are 0 .. MaxKey
MaxVal == 2         \* values of the hashmap are the pointers 1 .. MaxVal
MaxBuckets == 4     \* hashmap_init is called with 0 .. MaxBuckets buckets
MaxEntries == 4     \* hashmap_insert is called while the map holds fewer entries

(***************************************************************************)
(* Small helpers.                                                          *)
(***************************************************************************)
Min(a, b) == IF a < b THEN a ELSE b
Max(a, b) == IF a > b THEN a ELSE b

RECURSIVE Pow(_, _)
Pow(b, e) == IF e = 0 THEN 1 ELSE b * Pow(b, e - 1)

\* mask & (1 << n) != 0
BitSet(mask, n) == (mask \div Pow(2, n)) % 2 = 1

B2I(b) == IF b THEN 1 ELSE 0

(***************************************************************************)
(* xyarray_get / xyarray_set                                               *)
(***************************************************************************)
xyarray_get(a, width, x, y) ==
    IF x < 0 \/ y < 0 \/ x >= width \/ y >= width
    THEN 0
    ELSE a[y * width + x]      \* the wrap of x below the early return is dead code

xyarray_wrapx(width, x) == IF x < 0 THEN width - 1 ELSE IF x >= width THEN 0 ELSE x

\* stores (unsigned char)v
xyarray_set(a, width, x, y, v) ==
    [a EXCEPT ![y * width + xyarray_wrapx(width, x)] = v % 256]

(***************************************************************************)
(* The four neighbour-counting strategies.                                 *)
(***************************************************************************)
neigh_vn1(a, side, x, y) ==
      B2I(xyarray_get(a, side, x + 1, y) # 0)
    + B2I(xyarray_get(a, side, x - 1, y) # 0)
    + B2I(xyarray_get(a, side, x, y + 1) # 0)
    + B2I(xyarray_get(a, side, x, y - 1) # 0)

neigh_m1(a, side, x, y) ==
      neigh_vn1(a, side, x, y)
    + B2I(xyarray_get(a, side, x + 1, y + 1) # 0)
    + B2I(xyarray_get(a, side, x - 1, y + 1) # 0)
    + B2I(xyarray_get(a, side, x + 1, y - 1) # 0)
    + B2I(xyarray_get(a, side, x - 1, y - 1) # 0)

neigh_vnv(a, side, x, y) ==
    LET v == xyarray_get(a, side, x, y)
    IN    B2I(xyarray_get(a, side, x + 1, y) > v)
        + B2I(xyarray_get(a, side, x - 1, y) > v)
        + B2I(xyarray_get(a, side, x, y + 1) > v)
        + B2I(xyarray_get(a, side, x, y - 1) > v)

neigh_mv(a, side, x, y) ==
    LET v == xyarray_get(a, side, x, y)
    IN    neigh_vnv(a, side, x, y)
        + B2I(xyarray_get(a, side, x + 1, y + 1) > v)
        + B2I(xyarray_get(a, side, x - 1, y + 1) > v)
        + B2I(xyarray_get(a, side, x + 1, y - 1) > v)
        + B2I(xyarray_get(a, side, x - 1, y - 1) > v)

\* ca->neigh(arr, side, x, y): the function pointer of the rule
ca_neigh(rule, a, side, x, y) ==
    CASE rule.neigh = "neigh_vn1" -> neigh_vn1(a, side, x, y)
      [] rule.neigh = "neigh_m1"  -> neigh_m1(a, side, x, y)
      [] rule.neigh = "neigh_vnv" -> neigh_vnv(a, side, x, y)
      [] rule.neigh = "neigh_mv"  -> neigh_mv(a, side, x, y)

(***************************************************************************)
(* The rules of the program.                                               *)
(***************************************************************************)
ca_test ==
    [name |-> "test", born |-> 12, surv |-> 384, nr_states |-> 4,
     decay |-> TRUE, neigh |-> "neigh_m1"]

ca_instors ==
    << [name |-> "cool tree", born |-> 63, surv |-> 255, nr_states |-> 20,
        decay |-> FALSE, neigh |-> "neigh_mv"],
       [name |-> "ash pinus", born |-> 255, surv |-> 255, nr_states |-> 21,
        decay |-> FALSE, neigh |-> "neigh_mv"] >>

\* ca_test under each neighbour strategy the engine offers
MazeRules ==
    { [ca_test EXCEPT !.neigh = f] :
        f \in {"neigh_vn1", "neigh_m1", "neigh_vnv", "neigh_mv"} }

(***************************************************************************)
(* cell_aut_step: the body of the loop for cell (i, j), and the whole      *)
(* in-place pass, cells visited with i outermost.                          *)
(***************************************************************************)
\* cell_aut_cell with the `v &&` guard of the decay branch left out
cell_aut_cell_noguard(rule, a, side, i, j) ==
    LET n == ca_neigh(rule, a, side, i, j)
        v == xyarray_get(a, side, i, j)
    IN  IF v = 0 /\ BitSet(rule.born, n)
        THEN xyarray_set(a, side, i, j, rule.nr_states)
        ELSE IF v # 0 /\ BitSet(rule.surv, n)
        THEN a
        ELSE IF rule.decay
        THEN xyarray_set(a, side, i, j, v - 1)
        ELSE a

cell_aut_cell(rule, a, side, i, j) ==
    LET n == ca_neigh(rule, a, side, i, j)
        v == xyarray_get(a, side, i, j)
    IN  IF v = 0 /\ BitSet(rule.born, n)
        THEN xyarray_set(a, side, i, j, rule.nr_states)
        ELSE IF v # 0 /\ BitSet(rule.surv, n)
        THEN a
        ELSE IF v # 0 /\ rule.decay
        THEN xyarray_set(a, side, i, j, v - 1)
        ELSE a

RECURSIVE cell_aut_from(_, _, _, _)
cell_aut_from(rule, a, side, k) ==
    IF k >= side * side
    THEN a
    ELSE LET b == cell_aut_cell(rule, a, side, k \div side, k % side)
         IN  IF b \in [DOMAIN a -> 0 .. 255]       \* unsigned char *arr
             THEN cell_aut_from(rule, b, side, k + 1)
             ELSE a

cell_aut_step(rule, a, side) == cell_aut_from(rule, a, side, 0)

RECURSIVE cell_aut_steps(_, _, _, _)
cell_aut_steps(rule, a, side, steps) ==
    IF steps = 0 THEN a
    ELSE cell_aut_steps(rule, cell_aut_step(rule, a, side), side, steps - 1)

(***************************************************************************)
(* ca_gen_maze: seeding from the draws lrand48() % 8, then `steps` passes. *)
(***************************************************************************)
MazeSteps == 3

\* ca_seed_cell with the draw itself stored when it is above nr_states
ca_seed_cell_draw(rule, v) == IF v <= rule.nr_states THEN rule.nr_states ELSE v

ca_seed_cell(rule, v) == IF v <= rule.nr_states THEN rule.nr_states ELSE 0

\* draws[k] is the k-th value of lrand48() % 8; cell (i, j) takes draw i * side + j
ca_seed(rule, side, draws) ==
    [idx \in 0 .. side * side - 1 |->
        ca_seed_cell(rule, draws[(idx % side) * side + (idx \div side)]) % 256]

\* the values lrand48() % 8 can take, at the two ends of its range
SeedDraws == {0, 7}

(***************************************************************************)
(* The automaton run cell by cell: the maze rule for MazeSteps passes and  *)
(* then each rule of ca_instors for one pass over the same grid, as        *)
(* terrain_init_square_landscape does.                                     *)
(***************************************************************************)
CaInit ==
    /\ caSide \in 2 .. MaxMazeSide
    /\ ca \in MazeRules
    /\ arr = [idx \in 0 .. caSide * caSide - 1 |-> 0]
    /\ arr0 = arr
    /\ ci = 0 /\ cj = 0 /\ caStep = 0 /\ caPhase = 0
    /\ caPc = "seed"

CaSeed ==
    /\ caPc = "seed"
    /\ \E draws \in [0 .. caSide * caSide - 1 -> SeedDraws] :
          arr' = ca_seed(ca, caSide, draws)
    /\ arr0' = arr'
    /\ caPc' = "cell"
    /\ UNCHANGED <<ca, caSide, ci, cj, caStep, caPhase>>

CaCell ==
    /\ caPc = "cell"
    /\ arr' = cell_aut_cell(ca, arr, caSide, ci, cj)
    /\ IF cj + 1 < caSide
       THEN ci' = ci /\ cj' = cj + 1 /\ caPc' = "cell"
       ELSE /\ ci' = ci + 1 /\ cj' = 0
            /\ caPc' = IF ci + 1 < caSide THEN "cell" ELSE "iter"
    /\ UNCHANGED <<arr0, ca, caSide, caStep, caPhase>>

\* the pass is over: the next pass of the maze rule, the next rule, or the end
CaNextPass ==
    /\ caPc = "iter"
    /\ caPhase = 0 /\ caStep + 1 < MazeSteps
    /\ caStep' = caStep + 1
    /\ arr0' = arr /\ ci' = 0 /\ cj' = 0 /\ caPc' = "cell"
    /\ UNCHANGED <<arr, ca, caSide, caPhase>>

CaNextRule ==
    /\ caPc = "iter"
    /\ ~(caPhase = 0 /\ caStep + 1 < MazeSteps)
    /\ caPhase < Len(ca_instors)
    /\ caPhase' = caPhase + 1
    /\ ca' = ca_instors[caPhase + 1]
    /\ arr0' = arr /\ ci' = 0 /\ cj' = 0 /\ caPc' = "cell"
    /\ UNCHANGED <<arr, caSide, caStep>>

CaDone ==
    /\ caPc = "iter"
    /\ ~(caPhase = 0 /\ caStep + 1 < MazeSteps)
    /\ caPhase = Len(ca_instors)
    /\ caPc' = "done"
    /\ UNCHANGED <<arr, arr0, ca, caSide, ci, cj, caStep, caPhase>>

\* the automaton is not in use
CaOff ==
    /\ arr = <<>> /\ arr0 = <<>> /\ ca = ca_test /\ caSide = 0
    /\ ci = 0 /\ cj = 0 /\ caStep = 0 /\ caPhase = 0 /\ caPc = "off"


(***************************************************************************)
(* BSP partitioner.  A node is [x, y, w, h, amp, oct]; ->a and ->b of the   *)
(* node at path p are the nodes at Append(p, 0) and Append(p, 1), ->root   *)
(* is the node at <<>>.  A value of drand48() is the rational d / den, den *)
(* the resolution of the draws; amp is kept in units of 1 / den.           *)
(***************************************************************************)
FracDen == 10
BSP_MIN_WIDTH == 1
AMPLITUDE == 8

\* the values drand48() takes in the model: d / FracDen, d in 0 .. FracDen - 1
FracDraws == 0 .. FracDen - 1
\* the draws the leaf callback makes, drand48() and rand(): one value each,
\* the amplitudes having no part in the shape of the tree
AmpDraws == {FracDen - 1}
OctDraws == {3}

\* C integer division: the quotient truncated toward zero.  Division by zero
\* is undefined: the build either traps (SIGFPE: x86, wasm) or goes on with
\* the quotient 0 (AArch64 sdiv); the trap is the action BspTrap below.
CDiv(a, b) ==
    IF b = 0 THEN 0
    ELSE IF (a >= 0) = (b > 0) THEN (IF a >= 0 THEN a ELSE -a) \div (IF b > 0 THEN b ELSE -b)
    ELSE -((IF a >= 0 THEN a ELSE -a) \div (IF b > 0 THEN b ELSE -b))

bsp_area(n) == n.w * n.h

\* bsp_needs_split(node, parent, level); root is the tree's root node
bsp_needs_split(n, root, level) ==
    IF n.w = BSP_MIN_WIDTH * 2 \/ n.h = BSP_MIN_WIDTH * 2 THEN FALSE
    ELSE IF level > 16 THEN FALSE
    ELSE IF CDiv(n.w, n.h) > 4 \/ CDiv(n.h, n.w) > 4 THEN TRUE
    ELSE IF bsp_area(n) > CDiv(bsp_area(root), 4) THEN TRUE
    ELSE IF level < 3 THEN TRUE
    ELSE FALSE

\* bsp_needs_split evaluates a division by zero
bsp_needs_split_div0(n, level) ==
    /\ ~(n.w = BSP_MIN_WIDTH * 2 \/ n.h = BSP_MIN_WIDTH * 2)
    /\ level <= 16
    /\ (n.h = 0 \/ n.w = 0)

\* bsp_part_one evaluates a division by zero choosing the axis
bsp_part_one_div0(n) == n.h = 0 \/ n.w = 0

\* clampd(frac, 0.2, 0.8) for frac = d / den, as a numerator over 10 * den
bsp_clamp_frac(d, den) == Max(Min(10 * d, 8 * den), 2 * den)

\* (int) min(max(frac * len, BSP_MIN_WIDTH), len - BSP_MIN_WIDTH)
bsp_split_len(d, den, len) ==
    CDiv(Min(Max(bsp_clamp_frac(d, den) * len, BSP_MIN_WIDTH * 10 * den),
             (len - BSP_MIN_WIDTH) * 10 * den),
         10 * den)

\* the axis bsp_part_one splits at `level`
bsp_vertical(n, level) ==
    IF CDiv(n.w, n.h) > 4 THEN TRUE
    ELSE IF CDiv(n.h, n.w) > 4 THEN FALSE
    ELSE level % 2 = 1

\* the children a and b with b's length taken from the fraction again
bsp_children_round(n, vertical, d, den) ==
    LET z == [n EXCEPT !.amp = 0, !.oct = 0]
    IN  IF vertical
        THEN LET aw == bsp_split_len(d, den, n.w)
             IN  << [z EXCEPT !.w = aw],
                    [z EXCEPT !.x = n.x + aw,
                              !.w = bsp_split_len(den - d, den, n.w)] >>
        ELSE LET ah == bsp_split_len(d, den, n.h)
             IN  << [z EXCEPT !.h = ah],
                    [z EXCEPT !.y = n.y + ah,
                              !.h = bsp_split_len(den - d, den, n.h)] >>

\* the children a and b with b left at the parent's origin
bsp_children_noshift(n, vertical, d, den) ==
    LET z == [n EXCEPT !.amp = 0, !.oct = 0]
    IN  IF vertical
        THEN LET aw == bsp_split_len(d, den, n.w)
             IN  << [z EXCEPT !.w = aw], [z EXCEPT !.w = n.w - aw] >>
        ELSE LET ah == bsp_split_len(d, den, n.h)
             IN  << [z EXCEPT !.h = ah], [z EXCEPT !.h = n.h - ah] >>

\* the children a and b that bsp_part_one makes of n
bsp_children(n, vertical, d, den) ==
    LET z == [n EXCEPT !.amp = 0, !.oct = 0]
    IN  IF vertical
        THEN LET aw == bsp_split_len(d, den, n.w)
             IN  << [z EXCEPT !.w = aw],
                    [z EXCEPT !.x = n.x + aw, !.w = n.w - aw] >>
        ELSE LET ah == bsp_split_len(d, den, n.h)
             IN  << [z EXCEPT !.h = ah],
                    [z EXCEPT !.y = n.y + ah, !.h = n.h - ah] >>

\* terrain_bsp_cb: amp = min(drand48() * AMPLITUDE, (16 - level) * 3.f),
\* oct = (rand() & 3) + 3
terrain_bsp_cb(n, level, d, den, r) ==
    [n EXCEPT !.amp = Min(d * AMPLITUDE, (16 - level) * 3 * den),
              !.oct = (r % 4) + 3]

\* bsp_process(seed, depth, x, y, w, h, cb, data): the root, and the call
\* bsp_part_one(root, 0, ...) pending
bsp_root(x, y, w, h) == [x |-> x, y |-> y, w |-> w, h |-> h, amp |-> 0, oct |-> 0]

\* a pending item [p, level, split]: split = TRUE is the call
\* bsp_part_one(p, level); split = FALSE is the test
\* bsp_needs_split(p, parent, level) that bsp_part_one(parent, level) makes
\* of its child and what follows it
BspTop == Head(bspStack)

BspSplits(it) ==
    it.split \/ bsp_needs_split(bsp[it.p], bsp[<<>>], it.level)

BspSplitLevel(it) == IF it.split THEN it.level ELSE it.level + 1

BspDiv0(it) ==
    \/ ~it.split /\ bsp_needs_split_div0(bsp[it.p], it.level)
    \/ BspSplits(it) /\ bsp_part_one_div0(bsp[it.p])

BspInit ==
    /\ \E w \in 2 .. MaxRoot, h \in 2 .. MaxRoot :
          bsp = (<<>> :> bsp_root(0, 0, w, h))
    /\ bspStack = << [p |-> <<>>, level |-> 0, split |-> TRUE] >>
    /\ bspPc = "run"

\* bsp_part_one(node, level) up to its first recursive call
BspPartOne(d, den) ==
    /\ bspPc = "run" /\ bspStack # <<>>
    /\ BspSplits(BspTop)
    /\ LET it   == BspTop
           lvl == BspSplitLevel(it)
           n   == bsp[it.p]
           ab  == bsp_children(n, bsp_vertical(n, lvl), d, den)
       IN  /\ bsp' = (Append(it.p, 0) :> ab[1]) @@ (Append(it.p, 1) :> ab[2]) @@ bsp
           /\ bspStack' = << [p |-> Append(it.p, 0), level |-> lvl, split |-> FALSE],
                             [p |-> Append(it.p, 1), level |-> lvl, split |-> FALSE] >>
                          \o Tail(bspStack)
    /\ UNCHANGED bspPc

\* the child is not split: cb(child, level, data)
BspLeaf(d, den, r) ==
    /\ bspPc = "run" /\ bspStack # <<>>
    /\ ~BspSplits(BspTop)
    /\ bsp' = [bsp EXCEPT ![BspTop.p] = terrain_bsp_cb(@, BspTop.level, d, den, r)]
    /\ bspStack' = Tail(bspStack)
    /\ UNCHANGED bspPc

\* a division by zero that traps
BspTrap ==
    /\ bspPc = "run" /\ bspStack # <<>>
    /\ BspDiv0(BspTop)
    /\ bspPc' = "sigfpe"
    /\ UNCHANGED <<bsp, bspStack>>

\* bsp_process returns the root
BspDone ==
    /\ bspPc = "run" /\ bspStack = <<>>
    /\ bspPc' = "done"
    /\ UNCHANGED <<bsp, bspStack>>

(***************************************************************************)
(* Point location in a tree tr, a function from paths to nodes.  A node    *)
(* pointer is a path; ->a of p is set when Append(p, 0) is in the tree.    *)
(***************************************************************************)
bsp_within_rect(n, x, y) ==
    x >= n.x /\ x < n.x + n.w /\ y >= n.y /\ y < n.y + n.h

\* bsp_larger_smaller(&a, &b): the pair with the larger area first, a first
\* when the areas are equal
bsp_larger_smaller(tr, a, b) ==
    IF bsp_area(tr[a]) < bsp_area(tr[b]) THEN <<b, a>> ELSE <<a, b>>

\* bsp_within_ellipse: xax = w / 2 and yax = h / 2 are integer quotients kept
\* as floats.  An axis of 0 makes its term 0 / 0 = NaN or d / 0 = inf and the
\* comparison false; the other quotients are compared exactly, which is
\* what float arithmetic gives for these small integers.
bsp_within_ellipse(n, x, y) ==
    LET xax == CDiv(n.w, 2)
        yax == CDiv(n.h, 2)
        dx  == x - (n.x + CDiv(n.w, 2))
        dy  == y - (n.y + CDiv(n.h, 2))
    IN  /\ bsp_within_rect(n, x, y)
        /\ xax # 0 /\ yax # 0
        /\ dx * dx * yax * yax + dy * dy * xax * xax <= xax * xax * yax * yax

\* bsp_within(bp, x, y): the rect test when bp->a && bp->a->a
bsp_within(tr, p, x, y) ==
    IF Append(p, 0) \in DOMAIN tr /\ Append(Append(p, 0), 0) \in DOMAIN tr
    THEN bsp_within_rect(tr[p], x, y)
    ELSE bsp_within_ellipse(tr[p], x, y)

\* one turn of the loop of bsp_find at the node `it`, which has both children
bsp_find_step(tr, it, x, y) ==
    LET ab == bsp_larger_smaller(tr, Append(it, 0), Append(it, 1))
    IN  IF bsp_within(tr, ab[1], x, y) THEN ab[1] ELSE ab[2]

\* the loop of bsp_find from the node `it`
RECURSIVE bsp_find_from(_, _, _, _)
bsp_find_from(tr, it, x, y) ==
    IF Append(it, 0) \in DOMAIN tr /\ Append(it, 1) \in DOMAIN tr
    THEN bsp_find_from(tr, bsp_find_step(tr, it, x, y), x, y)
    ELSE it

\* bsp_find(root, x, y)
bsp_find(tr, x, y) == bsp_find_from(tr, <<>>, x, y)

\* bsp_xfrac(node, x) >= 0: (float)(x - node->x - node->w / 2) over
\* (float)node->w / 2, which is 0 / 0 = NaN for a width of 0
bsp_xfrac_pos(n, x) ==
    LET num == x - n.x - CDiv(n.w, 2)
    IN  num >= 0 /\ ~(num = 0 /\ n.w = 0)

bsp_yfrac_pos(n, y) ==
    LET num == y - n.y - CDiv(n.h, 2)
    IN  num >= 0 /\ ~(num = 0 /\ n.h = 0)

\* bsp_xneigh(node, x, y), node->root being the node at <<>>
bsp_xneigh(tr, p, x, y) ==
    IF bsp_xfrac_pos(tr[p], x)
    THEN IF x >= tr[<<>>].x + tr[<<>>].w THEN p
         ELSE bsp_find(tr, tr[p].x + tr[p].w, y)
    ELSE IF x <= tr[<<>>].x THEN p
         ELSE bsp_find(tr, tr[p].x - 1, y)

\* bsp_yneigh(node, x, y)
bsp_yneigh(tr, p, x, y) ==
    IF bsp_yfrac_pos(tr[p], y)
    THEN IF y >= tr[<<>>].y + tr[<<>>].h THEN p
         ELSE bsp_find(tr, x, tr[p].y + tr[p].h)
    ELSE IF y <= tr[<<>>].y THEN p
         ELSE bsp_find(tr, x, tr[p].y - 1)

\* the partitioner is not in use
BspOff == bsp = <<>> /\ bspStack = <<>> /\ bspPc = "off"

(***************************************************************************)
(* terrain_height.  World coordinates are rationals over QDen; heights are *)
(* integers; the fractional offsets in a grid square and the returned      *)
(* height are rationals over QDen * t.side.  A float is [kind, v]: kind    *)
(* "num" for the finite value v, "nan" for a value that is not finite.     *)
(***************************************************************************)
QDen == 2

Num(v) == [kind |-> "num", v |-> v]
NaN == [kind |-> "nan", v |-> 0]
\* the call did not return: the read faulted
Fault == [kind |-> "fault", v |-> 0]

\* what a read outside the array can give: any float, or a fault
HeapVals == {Num(0), Num(7), NaN, Fault}

th_den(tt) == QDen * tt.side

\* tx / square, as a numerator over th_den
th_scaled(tt, xn, origin) == (xn - origin * QDen) * (tt.nr_vert - 1)

\* gridx = floorf(tx / square)
th_grid(tt, xn, origin) == th_scaled(tt, xn, origin) \div th_den(tt)

\* xoff = (tx - square * gridx) / square, as a numerator over th_den
th_off(tt, xn, origin) ==
    th_scaled(tt, xn, origin) - th_grid(tt, xn, origin) * th_den(tt)

\* x < t->x || x > t->x + t->side || z < t->z || z > t->z + t->side,
\* with the upper limits not tested
th_outside_lower(tt, xn, zn) ==
    xn < tt.x * QDen \/ zn < tt.z * QDen

\* x < t->x || x > t->x + t->side || z < t->z || z > t->z + t->side
th_outside(tt, xn, zn) ==
    \/ xn < tt.x * QDen \/ xn > (tt.x + tt.side) * QDen
    \/ zn < tt.z * QDen \/ zn > (tt.z + tt.side) * QDen

\* t->map[idx]; g is what the read gives when idx is outside the array
th_read(tt, idx, g) ==
    IF idx \in 0 .. tt.nr_vert * tt.nr_vert - 1 THEN Num(tt.map[idx]) ELSE g

\* barrycentric(p1, p2, p3, pos): p = <<x, height, z>> with x, z in {0, 1},
\* pos = <<xoff, zoff>> over den; the result over den
barrycentric(p1, p2, p3, pos, den) ==
    LET det == (p2[3] - p3[3]) * (p1[1] - p3[1]) + (p3[1] - p2[1]) * (p1[3] - p3[3])
        l1  == CDiv((p2[3] - p3[3]) * (pos[1] - p3[1] * den)
                    + (p3[1] - p2[1]) * (pos[2] - p3[3] * den), det)
        l2  == CDiv((p3[3] - p1[3]) * (pos[1] - p3[1] * den)
                    + (p1[1] - p3[1]) * (pos[2] - p3[3] * den), det)
        l3  == den - l1 - l2
    IN  IF "fault" \in {p1[2].kind, p2[2].kind, p3[2].kind} THEN Fault
        ELSE IF "nan" \in {p1[2].kind, p2[2].kind, p3[2].kind} THEN NaN
        ELSE Num(l1 * p1[2].v + l2 * p2[2].v + l3 * p3[2].v)

\* the indices the two triangles of the square (gridx, gridz) read
th_idx(tt, gx, gz) == gx * tt.nr_vert + gz

th_triangle_a(tt, xn, zn) ==
    th_off(tt, xn, tt.x) + th_off(tt, zn, tt.z) <= th_den(tt)

th_reads(tt, xn, zn) ==
    LET gx == th_grid(tt, xn, tt.x)
        gz == th_grid(tt, zn, tt.z)
    IN  IF tt.map = <<>> \/ th_outside(tt, xn, zn) THEN {}
        ELSE IF th_triangle_a(tt, xn, zn)
        THEN {th_idx(tt, gx, gz), th_idx(tt, gx + 1, gz), th_idx(tt, gx, gz + 1)}
        ELSE {th_idx(tt, gx + 1, gz), th_idx(tt, gx + 1, gz + 1), th_idx(tt, gx, gz + 1)}

\* terrain_height(t, x, z); g2, g3 are what the reads of p2 and p3 give
\* when they fall outside the array
terrain_height(tt, xn, zn, g2, g3) ==
    LET gx  == th_grid(tt, xn, tt.x)
        gz  == th_grid(tt, zn, tt.z)
        pos == <<th_off(tt, xn, tt.x), th_off(tt, zn, tt.z)>>
        g1  == Fault      \* p1 of either triangle is never outside when p2, p3 are not
    IN  IF tt.map = <<>> THEN Num(0)
        ELSE IF th_outside(tt, xn, zn) THEN Num(0)
        ELSE IF th_triangle_a(tt, xn, zn)
        THEN barrycentric(<<0, th_read(tt, th_idx(tt, gx, gz), g1), 0>>,
                          <<1, th_read(tt, th_idx(tt, gx + 1, gz), g2), 0>>,
                          <<0, th_read(tt, th_idx(tt, gx, gz + 1), g3), 1>>,
                          pos, th_den(tt))
        ELSE barrycentric(<<1, th_read(tt, th_idx(tt, gx + 1, gz), g2), 0>>,
                          <<1, th_read(tt, th_idx(tt, gx + 1, gz + 1), g2), 1>>,
                          <<0, th_read(tt, th_idx(tt, gx, gz + 1), g3), 1>>,
                          pos, th_den(tt))

\* a finished terrain: heights that differ from vertex to vertex
QHeights(n) ==
    { [idx \in 0 .. n * n - 1 |-> k * idx * idx - c] : k \in {1, 2}, c \in {0, 5} }

QInit ==
    /\ \E n \in 2 .. MaxRes, sd \in 1 .. MaxSide, ox \in {0 - 1, 0}, oz \in {0, 2},
          m \in QHeights(MaxRes) :
          t = [seed |-> 0, map |-> [idx \in 0 .. n * n - 1 |-> m[idx]], map0 |-> <<>>,
               x |-> ox, y |-> 0, z |-> oz, side |-> sd, nr_vert |-> n]
    /\ qx = 0 /\ qz = 0 /\ qRet = Num(0) /\ qReads = {} /\ qPc = "idle"

\* the terrain and the query are not in use
QOff ==
    /\ t = [seed |-> 0, map |-> <<>>, map0 |-> <<>>, x |-> 0, y |-> 0, z |-> 0,
            side |-> 0, nr_vert |-> 0]
    /\ qx = 0 /\ qz = 0 /\ qRet = Num(0) /\ qReads = {} /\ qPc = "off"

\* the world coordinates asked for: the terrain's rect and a margin around it
QCoords(origin) == (origin - 1) * QDen .. (origin + t.side + 1) * QDen

TerrainHeight(xn, zn) ==
    /\ qPc = "idle"
    /\ qPc' = "ret"
    /\ qx' = xn /\ qz' = zn
    /\ \E g2 \in HeapVals, g3 \in HeapVals :
          qRet' = terrain_height(t, xn, zn, g2, g3)
    /\ qReads' = th_reads(t, xn, zn)
    /\ UNCHANGED t

\* the entries of t->map that calc_normal(t, n, x, z) reads
cn_reads(tt, x, z) ==
    (IF x = 0 THEN {} ELSE {(x - 1) * tt.nr_vert + z})
    \cup (IF x = tt.nr_vert - 1 THEN {} ELSE {(x + 1) * tt.nr_vert + z})
    \cup (IF z = 0 THEN {} ELSE {x * tt.nr_vert + (z - 1)})
    \cup (IF z = tt.nr_vert - 1 THEN {} ELSE {x * tt.nr_vert + (z + 1)})

\* calc_normal(t, n, x, z): n before vec3_norm; g[1] .. g[4] are what the
\* reads of hl, hr, hd, hu give when they fall outside the array
calc_normal(tt, x, z, g) ==
    LET left  == IF x = 0 THEN tt.nr_vert - 1 ELSE x - 1
        right == IF x = tt.nr_vert - 1 THEN 0 ELSE x + 1
        up    == IF z = 0 THEN tt.nr_vert - 1 ELSE z - 1
        down  == IF z = tt.nr_vert - 1 THEN 0 ELSE z + 1
        hl    == IF x = 0 THEN Num(0) ELSE th_read(tt, left * tt.nr_vert + z, g[1])
        hr    == IF x = tt.nr_vert - 1 THEN Num(0)
                 ELSE th_read(tt, right * tt.nr_vert + z, g[2])
        hd    == IF z = 0 THEN Num(0) ELSE th_read(tt, x * tt.nr_vert + up, g[3])
        hu    == IF z = tt.nr_vert - 1 THEN Num(0)
                 ELSE th_read(tt, x * tt.nr_vert + down, g[4])
        kinds == {hl.kind, hr.kind, hd.kind, hu.kind}
    IN  IF "fault" \in kinds THEN Fault
        ELSE IF "nan" \in kinds THEN NaN
        ELSE Num(<<hl.v - hr.v, 2, hd.v - hu.v>>)

\* terrain_normal(t, x, z, n): no test of (x, z) against the terrain's rect
terrain_normal(tt, xn, zn, g) ==
    calc_normal(tt, th_grid(tt, xn, tt.x), th_grid(tt, zn, tt.z), g)

TerrainNormal(xn, zn) ==
    /\ qPc = "idle"
    /\ qPc' = "nret"
    /\ qx' = xn /\ qz' = zn
    /\ \E g \in [1 .. 4 -> HeapVals] : qRet' = terrain_normal(t, xn, zn, g)
    /\ qReads' = cn_reads(t, th_grid(t, xn, t.x), th_grid(t, zn, t.z))
    /\ UNCHANGED t

\* the caller goes on to its next query
QNext ==
    /\ qPc \in {"ret", "nret"} /\ qRet.kind # "fault"
    /\ qPc' = "idle"
    /\ qx' = 0 /\ qz' = 0 /\ qRet' = Num(0) /\ qReads' = {}
    /\ UNCHANGED t


(***************************************************************************)
(* The generator behind srand48, drand48 and lrand48: the linear           *)
(* congruential X' = (a * X + c) mod 2^48 of the C library, a = 5DEECE66D  *)
(* and c = B (hex), kept here to RngBits bits: the same recurrence modulo  *)
(* 2^RngBits.  srand48(s) sets the high bits to s and the low bits to      *)
(* those of 330E (hex); a draw steps the state and returns its high bits.  *)
(***************************************************************************)
RngMod == Pow(2, RngBits)
RngLowBits == 2
RngSeedMod == Pow(2, RngBits - RngLowBits)

\* a mod 2^12, c
lcg_step(x) == (x * (1645 % RngMod) + 11) % RngMod

\* the state the C library starts with: 1234ABCD330E (hex), its low bits
rng_default == 13070 % RngMod

srand48(seedval) == (seedval % RngSeedMod) * Pow(2, RngLowBits) + (13070 % Pow(2, RngLowBits))

\* drand48() after the step to state x: x / RngMod, as the numerator
drand48_val(x) == x

\* lrand48() after the step to state x: the high bits of x
lrand48_val(x) == x \div Pow(2, RngLowBits)

\* a ^ b on naturals
RECURSIVE Xor(_, _)
Xor(a, b) ==
    IF a = 0 THEN b
    ELSE IF b = 0 THEN a
    ELSE (((a % 2) + (b % 2)) % 2) + 2 * Xor(a \div 2, b \div 2)

\* get_rand_height without the srand48: the draw continues the stream
get_rand_height_noseed(seed, x, z, x0) ==
    LET x1 == lcg_step(x0)
    IN  [ret |-> 2 * drand48_val(x1) - RngMod, rng |-> x1]

\* get_rand_height(t, x, z) called with the generator in state x0:
\* srand48(t->seed ^ (x + z * 43210)); return drand48() * 2 - 1;
\* ret is over RngMod, rng is the state the call leaves
get_rand_height(seed, x, z, x0) ==
    LET x1 == lcg_step(srand48(Xor(seed, x + z * 43210)))
    IN  [ret |-> 2 * drand48_val(x1) - RngMod, rng |-> x1]

Seeds == 0 .. MaxSeed

\* no call of get_rand_height yet
NoCall == [x |-> 0 - 1, z |-> 0 - 1, ret |-> 0]

RandInit ==
    /\ rng = rng_default
    /\ rhx = 0 /\ rhz = 0 /\ rhRet = 0
    /\ rhFirst = NoCall

\* the generator is not in use
RngOff == rng = 0 /\ rhx = 0 /\ rhz = 0 /\ rhRet = 0 /\ rhFirst = NoCall

\* some other user of the generator draws from it
RandOtherDraw ==
    /\ rng' = lcg_step(rng)
    /\ UNCHANGED <<rhx, rhz, rhRet, rhFirst>>

\* a call get_rand_height(t, x, z)
GetRandHeight(x, z) ==
    LET r == get_rand_height(t.seed, x, z, rng)
    IN  /\ rng' = r.rng
        /\ rhx' = x /\ rhz' = z /\ rhRet' = r.ret
        /\ rhFirst' = IF rhFirst = NoCall THEN [x |-> x, z |-> z, ret |-> r.ret]
                      ELSE rhFirst

\* a terrain with its seed set and nothing built yet
RandTerrain ==
    /\ \E sd \in Seeds :
          t = [seed |-> sd, map |-> <<>>, map0 |-> <<>>, x |-> 0, y |-> 0, z |-> 0,
               side |-> 0, nr_vert |-> 0]
    /\ qx = 0 /\ qz = 0 /\ qRet = Num(0) /\ qReads = {} /\ qPc = "off"


(***************************************************************************)
(* terrain_init_square_landscape, up to the height field.  The heights are *)
(* kept at the vertices (i, j) with i and j multiples of MAZE_FAC: there   *)
(* every blend factor handed to cos_interp is 0 or -1 and every sample     *)
(* point of get_height is a whole grid cell, so a height is a rational,    *)
(* kept as its numerator over HDen.                                        *)
(***************************************************************************)
MAZE_FAC == 8
OCTAVES == 4

\* the generator's state after n draws from state x
RECURSIVE rng_after(_, _)
rng_after(x, n) == IF n = 0 THEN x ELSE rng_after(lcg_step(x), n - 1)

\* ca_gen_maze(ca, side, steps) called with the generator in state x0
ca_gen_maze(rule, side, steps, x0) ==
    LET draws == [k \in 0 .. side * side - 1 |->
                     lrand48_val(rng_after(x0, k + 1)) % 8]
    IN  [arr |-> cell_aut_steps(rule, ca_seed(rule, side, draws), side, steps),
         rng |-> rng_after(x0, side * side)]

\* cos_interp(a, b, blend) for blend in {-1, 0, 1}: cosf(0) = 1 gives a,
\* cosf(pi) = cosf(-pi) = -1 gives b
cos_interp(a, b, blend) == IF blend = 0 THEN a ELSE b

get_mapped_rand_height(tt, x, z) ==
    LET xw == IF x < 0 THEN tt.nr_vert - 1 ELSE IF x >= tt.nr_vert THEN 0 ELSE x
        zw == IF z < 0 THEN tt.nr_vert - 1 ELSE IF z >= tt.nr_vert THEN 0 ELSE z
    IN  tt.map0[xw * tt.nr_vert + zw]

\* get_avg_height(t, x, z), as the numerator over 16 * RngMod
get_avg_height(tt, x, z) ==
    LET corners == get_mapped_rand_height(tt, x - 1, z - 1)
                   + get_mapped_rand_height(tt, x + 1, z - 1)
                   + get_mapped_rand_height(tt, x - 1, z + 1)
                   + get_mapped_rand_height(tt, x + 1, z + 1)
        sides   == get_mapped_rand_height(tt, x - 1, z)
                   + get_mapped_rand_height(tt, x + 1, z)
                   + get_mapped_rand_height(tt, x, z - 1)
                   + get_mapped_rand_height(tt, x, z + 1)
        self    == get_mapped_rand_height(tt, x, z)
    IN  corners + 2 * sides + 4 * self

\* get_interp_height(t, x, z) at a whole x and z: fracx = fracz = 0
get_interp_height(tt, x, z) ==
    LET v1 == get_avg_height(tt, x, z)
        v2 == get_avg_height(tt, x + 1, z)
        v3 == get_avg_height(tt, x, z + 1)
        v4 == get_avg_height(tt, x + 1, z + 1)
        i1 == cos_interp(v1, v2, 0)
        i2 == cos_interp(v3, v4, 0)
    IN  cos_interp(i1, i2, 0)

\* the denominator of a height: 16 of get_avg_height, 2^(OCTAVES - 1) of
\* ROUGHNESS^i, 2^nr_states of powf(1.5, avg), RngMod of a draw
HDen == 16 * Pow(2, OCTAVES - 1) * Pow(2, ca_test.nr_states) * RngMod

\* the octaves i .. OCTAVES - 1 of get_height(t, x, z, powf(1.5, avg), OCTAVES):
\* freq = 2^i / 2^(OCTAVES - 1), amp = ROUGHNESS^i * 1.5^avg
RECURSIVE get_height_total(_, _, _, _, _)
get_height_total(tt, x, z, avg, i) ==
    IF i >= OCTAVES THEN 0
    ELSE get_interp_height(tt, (x * Pow(2, i)) \div Pow(2, OCTAVES - 1),
                               (z * Pow(2, i)) \div Pow(2, OCTAVES - 1))
            * Pow(2, OCTAVES - 1 - i)
            * Pow(3, avg) * Pow(2, ca_test.nr_states - avg)
         + get_height_total(tt, x, z, avg, i + 1)

\* get_height(t, x, z, powf(1.5, avg), OCTAVES) for x, z multiples of
\* 2^(OCTAVES - 1), over HDen
get_height(tt, x, z, avg) == tt.y * HDen + get_height_total(tt, x, z, avg, 0)

\* the nodes whose amp the loop blends for the cell (i, j): bp, bpx and bpy,
\* the neighbours being asked of bsp_root
bsp_amp_nodes(tr, i, j) ==
    {bsp_find(tr, i, j), bsp_xneigh(tr, <<>>, i, j), bsp_yneigh(tr, <<>>, i, j)}

\* the arguments _amp and _oct of the call of get_height for the cell (i, j),
\* i and j multiples of MAZE_FAC: powf(1.5, avg) as <<numerator, denominator>>
\* and OCTAVES
get_height_args(mz, mside, i, j) ==
    LET xpos == i \div MAZE_FAC
        ypos == j \div MAZE_FAC
        cn   == xyarray_get(mz, mside, xpos, ypos)
        xn   == xyarray_get(mz, mside, xpos - 1, ypos)
        avg  == IF cn > xn THEN cn ELSE xn
    IN  [amp |-> <<Pow(3, avg), Pow(2, avg)>>, oct |-> OCTAVES]

\* the body with the height of the first cell of t->map, as it stands, added
\* to that of every other cell
terrain_map_cell_prev(tt, mz, mside, i, j) ==
    LET xpos == i \div MAZE_FAC
        ypos == j \div MAZE_FAC
        cn   == xyarray_get(mz, mside, xpos, ypos)
        xn   == xyarray_get(mz, mside, xpos - 1, ypos)
        avg  == IF cn > xn THEN cn ELSE xn
    IN  get_height(tt, i, j, avg) + avg * HDen
        + (IF i = 0 /\ j = 0 THEN 0 ELSE tt.map[0])

\* the body of the loop that fills t->map, for i and j multiples of MAZE_FAC:
\* xfrac = yfrac = 0
terrain_map_cell(tt, mz, mside, i, j) ==
    LET xpos == i \div MAZE_FAC
        ypos == j \div MAZE_FAC
        cn   == xyarray_get(mz, mside, xpos, ypos)
        xn   == xyarray_get(mz, mside, xpos - 1, ypos)
        yn   == xyarray_get(mz, mside, xpos, ypos - 1)
        xavg == IF cn > xn THEN cn ELSE cos_interp(cn, xn, 0 - 1)
        yavg == IF cn > yn THEN cn ELSE cos_interp(cn, yn, 0 - 1)
        avg  == cos_interp(xavg, yavg, 0)
    IN  get_height(tt, i, j, avg) + avg * HDen

\* the rows and columns of t->map that are kept
Lattice(n) == { k \in 0 .. n - 1 : k % MAZE_FAC = 0 }

terrain_map(tt, mz, mside) ==
    [idx \in { i * tt.nr_vert + j : i \in Lattice(tt.nr_vert), j \in Lattice(tt.nr_vert) } |->
        terrain_map_cell(tt, mz, mside, idx \div tt.nr_vert, idx % tt.nr_vert)]

\* the calls made: a terrain of nr_v vertices a side, one unit apart
BuildArgs ==
    { [x |-> 0, y |-> y, z |-> 0, side |-> n - 1, nr_v |-> n] :
        y \in {0, 1}, n \in MAZE_FAC + 1 .. MaxBuildRes }

\* calls with a side of 0 and with a single vertex: the entry point takes
\* any float side and any unsigned nr_v
BadArgs ==
    { [x |-> 0, y |-> 0, z |-> 0, side |-> 0, nr_v |-> MAZE_FAC + 1],
      [x |-> 0, y |-> 0, z |-> 0, side |-> 1, nr_v |-> 1] }

NoArgs == [x |-> 0, y |-> 0, z |-> 0, side |-> 0, nr_v |-> 0]
NoTerrain ==
    [seed |-> 0, map |-> <<>>, map0 |-> <<>>, x |-> 0, y |-> 0, z |-> 0,
     side |-> 0, nr_vert |-> 0]
NoBuild == [seed |-> 0, args |-> NoArgs, map |-> <<>>]

BuildInit ==
    bPc = "idle" /\ bArgs = NoArgs /\ maze = <<>> /\ built = NoBuild /\ bLog = <<>>

\* no terrain is being built
BuildOff ==
    bPc = "off" /\ bArgs = NoArgs /\ maze = <<>> /\ built = NoBuild /\ bLog = <<>>

\* the call terrain_init_square_landscape(s, x, y, z, side, nr_v)
BuildCall(a) ==
    /\ bPc = "idle"
    /\ bPc' = "maze" /\ bArgs' = a
    /\ UNCHANGED <<maze, built, bLog, t, rng, bspVars>>

\* maze = ca_gen_maze(&ca_test, nr_v / MAZE_FAC, 3)
BuildMaze ==
    /\ bPc = "maze"
    /\ LET m == ca_gen_maze(ca_test, bArgs.nr_v \div MAZE_FAC, MazeSteps, rng)
       IN  maze' = m.arr /\ rng' = m.rng
    /\ bPc' = "seed" /\ bLog' = Append(bLog, "maze")
    /\ UNCHANGED <<bArgs, built, t, bspVars>>

\* t = ref_new(terrain); t->seed = ts.tv_nsec; bsp_process(t->seed, ...) up
\* to its call of bsp_part_one
BuildSeed(sd) ==
    /\ bPc = "seed"
    /\ t' = [NoTerrain EXCEPT !.seed = sd]
    /\ rng' = srand48(sd)
    /\ bsp' = (<<>> :> bsp_root(0, 0, bArgs.nr_v, bArgs.nr_v))
    /\ bspStack' = << [p |-> <<>>, level |-> 0, split |-> TRUE] >>
    /\ bspPc' = "run"
    /\ bPc' = "bsp" /\ bLog' = Append(bLog, "seed")
    /\ UNCHANGED <<bArgs, maze, built>>

\* bsp_part_one with its fraction drawn from the generator
BuildBspPartOne ==
    /\ bPc = "bsp"
    /\ LET x1 == lcg_step(rng)
       IN  rng' = x1 /\ BspPartOne(drand48_val(x1), RngMod)
    /\ UNCHANGED <<buildVars, t>>

\* terrain_bsp_cb with its amplitude drawn from the generator
BuildBspLeaf(r) ==
    /\ bPc = "bsp"
    /\ LET x1 == lcg_step(rng)
       IN  rng' = x1 /\ BspLeaf(drand48_val(x1), RngMod, r)
    /\ UNCHANGED <<buildVars, t>>

BuildBspTrap ==
    /\ bPc = "bsp"
    /\ BspTrap
    /\ UNCHANGED <<buildVars, t, rng>>

\* bsp_process returned; the fields of t and the fill of t->map0
BuildMap0 ==
    /\ bPc = "bsp"
    /\ BspDone
    /\ LET n == bArgs.nr_v
       IN  /\ t' = [t EXCEPT !.nr_vert = n, !.side = bArgs.side,
                             !.x = bArgs.x, !.y = bArgs.y, !.z = bArgs.z,
                             !.map0 = [idx \in 0 .. n * n - 1 |->
                                 get_rand_height(t.seed, idx \div n, idx % n, rng).ret]]
           /\ rng' = get_rand_height(t.seed, n - 1, n - 1, rng).rng
    /\ bPc' = "map" /\ bLog' = Append(bLog, "bsp")
    /\ UNCHANGED <<bArgs, maze, built>>

\* the fill of t->map
BuildMap ==
    /\ bPc = "map"
    /\ t' = [t EXCEPT !.map = terrain_map(t, maze, bArgs.nr_v \div MAZE_FAC)]
    /\ bPc' = "free" /\ bLog' = Append(bLog, "map")
    /\ UNCHANGED <<bArgs, maze, built, rng, bspVars>>

\* free(t->map0), bsp_cleanup(bsp_root), one pass of each rule of ca_instors
BuildFree ==
    /\ bPc = "free"
    /\ t' = [t EXCEPT !.map0 = <<>>]
    /\ bsp' = <<>> /\ bspStack' = <<>> /\ bspPc' = "off"
    /\ maze' = cell_aut_step(ca_instors[2],
                             cell_aut_step(ca_instors[1], maze, bArgs.nr_v \div MAZE_FAC),
                             bArgs.nr_v \div MAZE_FAC)
    /\ bPc' = "done" /\ bLog' = bLog \o <<"discard", "rules">>
    /\ UNCHANGED <<bArgs, built, rng>>

\* the first call returns its terrain
BuildReturn ==
    /\ bPc = "done" /\ built = NoBuild
    /\ built' = [seed |-> t.seed, args |-> bArgs, map |-> t.map]
    /\ bPc' = "idle" /\ bArgs' = NoArgs /\ maze' = <<>> /\ bLog' = <<>>
    /\ UNCHANGED <<t, rng, bspVars>>

\* between the two calls some other user of the generator draws from it
BuildOtherDraw ==
    /\ bPc = "idle" /\ built # NoBuild
    /\ rng' = lcg_step(rng)
    /\ UNCHANGED <<buildVars, t, bspVars>>


(***************************************************************************)
(* terrain_init_square_landscape: the instantiators.  One pass of each     *)
(* rule of ca_instors over the maze, then a point for every maze cell that *)
(* holds a rule's nr_states.  The terrains have nr_v = MAZE_FAC * mside + 1 *)
(* vertices a side, one unit apart, so that a cell's centre is a whole     *)
(* number of QDen-ths.                                                     *)
(***************************************************************************)
\* the mazes of side ms when ca_gen_maze returns: every cell at nr_states
\* but for at most MaxHoles cells at 0
PlaceMazes(ms) ==
    { [idx \in 0 .. ms * ms - 1 |-> IF idx \in holes THEN 0 ELSE ca_test.nr_states] :
        holes \in { hs \in SUBSET (0 .. ms * ms - 1) : Cardinality(hs) <= MaxHoles } }

\* the point with dx, dz taken at the cell's corner: (i + 0.5) read as i
instor_point_corner(tt, r, i, j, g2, g3) ==
    LET dx == tt.x * QDen + CDiv(2 * i * MAZE_FAC * tt.side * QDen, 2 * (tt.nr_vert - 1))
        dz == tt.z * QDen + CDiv(2 * j * MAZE_FAC * tt.side * QDen, 2 * (tt.nr_vert - 1))
    IN  [name |-> r.name, dx |-> dx, dz |-> dz,
         dy |-> terrain_height(tt, dx, dz, g2, g3)]

\* instor->name, dx, dz, dy for rule r and cell (i, j):
\* dx = x + (float)(i + 0.5) * MAZE_FAC * side / (nr_v - 1)
instor_point(tt, r, i, j, g2, g3) ==
    LET dx == tt.x * QDen
              + CDiv((2 * i + 1) * MAZE_FAC * tt.side * QDen, 2 * (tt.nr_vert - 1))
        dz == tt.z * QDen
              + CDiv((2 * j + 1) * MAZE_FAC * tt.side * QDen, 2 * (tt.nr_vert - 1))
    IN  [name |-> r.name, dx |-> dx, dz |-> dz,
         dy |-> terrain_height(tt, dx, dz, g2, g3)]

\* the points the body of the placement loop appends for cell (i, j),
\* rule ca and the rules after it
RECURSIVE instor_cell(_, _, _, _, _, _, _, _)
instor_cell(tt, mz, mside, i, j, k, g2, g3) ==
    IF k > Len(ca_instors) THEN <<>>
    ELSE (IF xyarray_get(mz, mside, i, j) = ca_instors[k].nr_states
          THEN << instor_point(tt, ca_instors[k], i, j, g2, g3) >>
          ELSE <<>>)
         \o instor_cell(tt, mz, mside, i, j, k + 1, g2, g3)

PlaceOff == instor = <<>> /\ pli = 0 /\ plj = 0 /\ plPc = "off"

\* a finished terrain and its maze, before the rules of ca_instors are stepped
PlaceInit ==
    /\ \E ms \in 1 .. MaxPlaceSide :
          /\ maze \in PlaceMazes(ms)
          /\ \E m \in QHeights(MAZE_FAC * ms + 1) :
                t = [seed |-> 0, map |-> m, map0 |-> <<>>, x |-> 0 - 1, y |-> 0,
                     z |-> 2, side |-> MAZE_FAC * ms, nr_vert |-> MAZE_FAC * ms + 1]
    /\ instor = <<>> /\ pli = 0 /\ plj = 0 /\ plPc = "rules"

\* for (i = 0; i < array_size(ca_instors); i++) cell_aut_step(&ca_instors[i], maze, mside)
PlaceRules ==
    /\ plPc = "rules"
    /\ maze' = cell_aut_step(ca_instors[2],
                             cell_aut_step(ca_instors[1], maze, t.nr_vert \div MAZE_FAC),
                             t.nr_vert \div MAZE_FAC)
    /\ plPc' = "place"
    /\ UNCHANGED <<instor, pli, plj, t>>

\* the body of the placement loop for cell (pli, plj)
PlaceCell ==
    /\ plPc = "place"
    /\ \E g2 \in HeapVals, g3 \in HeapVals :
          instor' = instor \o instor_cell(t, maze, t.nr_vert \div MAZE_FAC, pli, plj, 1, g2, g3)
    /\ IF plj + 1 < t.nr_vert \div MAZE_FAC
       THEN pli' = pli /\ plj' = plj + 1 /\ plPc' = "place"
       ELSE /\ pli' = pli + 1 /\ plj' = 0
            /\ plPc' = IF pli + 1 < t.nr_vert \div MAZE_FAC THEN "place" ELSE "done"
    /\ UNCHANGED <<maze, t>>


(***************************************************************************)
(* The loop that fills t->map (terrain.c:602-628) with its iterations      *)
(* taken in any order: the state is the one the loop starts in, t->map0    *)
(* filled and t->map zeroed by calloc.                                     *)
(***************************************************************************)
\* the cells of t->map that are kept
FillCells(tt) ==
    { i * tt.nr_vert + j : i \in Lattice(tt.nr_vert), j \in Lattice(tt.nr_vert) }

FillOff == fillOrd = <<>>

FillInit ==
    /\ \E a \in BuildArgs, sd \in Seeds, x0 \in 0 .. RngMod - 1 :
          /\ bArgs = a
          /\ maze = ca_gen_maze(ca_test, a.nr_v \div MAZE_FAC, MazeSteps, x0).arr
          /\ t = [seed |-> sd, x |-> a.x, y |-> a.y, z |-> a.z, side |-> a.side,
                  nr_vert |-> a.nr_v,
                  map0 |-> [idx \in 0 .. a.nr_v * a.nr_v - 1 |->
                      get_rand_height(sd, idx \div a.nr_v, idx % a.nr_v, 0).ret],
                  map |-> [idx \in { i * a.nr_v + j : i \in Lattice(a.nr_v),
                                                      j \in Lattice(a.nr_v) } |-> 0]]
    /\ bPc = "map" /\ built = NoBuild /\ bLog = <<"maze", "seed", "bsp">>
    /\ fillOrd = <<>>

\* one iteration of the loop, for a cell not yet written
FillCell(idx) ==
    /\ bPc = "map"
    /\ idx \in FillCells(t) /\ \A k \in 1 .. Len(fillOrd) : fillOrd[k] # idx
    /\ t' = [t EXCEPT !.map[idx] =
                terrain_map_cell(t, maze, bArgs.nr_v \div MAZE_FAC,
                                 idx \div t.nr_vert, idx % t.nr_vert)]
    /\ fillOrd' = Append(fillOrd, idx)
    /\ UNCHANGED <<bPc, bArgs, maze, built, bLog>>

\* every cell is written: the loop is over
FillDone ==
    /\ bPc = "map"
    /\ Len(fillOrd) = Cardinality(FillCells(t))
    /\ bPc' = "free" /\ bLog' = Append(bLog, "map")
    /\ UNCHANGED <<bArgs, maze, built, t, fillOrd>>


(***************************************************************************)
(* Reference counts.  An object is [count, magic]: the count of its struct *)
(* ref and the magic of struct x0; the drop callback is test_drop.  The    *)
(* counters are [fail, drop], failcount and dropcount of test.c.           *)
(***************************************************************************)
\* 0xdeadbeef, an unsigned long, as its halves 0xdead and 0xbeef
TEST_MAGIC0 == <<57005, 48879>>

\* the objects of the tests and the ref_get calls made on one of them
Objs == 1 .. MaxObjs

\* ref_new(struct x0, ref, test_drop): a zeroed object holding one reference
ref_new == [count |-> 1, magic |-> <<0, 0>>]

\* ref_get(x0)
ref_get(x) == [x EXCEPT !.count = @ + 1]

\* test_drop with the test of the magic inverted
test_drop_inverted(x, c) ==
    IF x.magic = TEST_MAGIC0
    THEN [freed |-> FALSE, c |-> [c EXCEPT !.fail = @ + 1]]
    ELSE [freed |-> TRUE, c |-> [c EXCEPT !.drop = @ + 1]]

\* test_drop(ref): failcount++ when the magic is not intact; else dropcount++
\* and free(x0)
test_drop(x, c) ==
    IF x.magic # TEST_MAGIC0
    THEN [freed |-> FALSE, c |-> [c EXCEPT !.fail = @ + 1]]
    ELSE [freed |-> TRUE, c |-> [c EXCEPT !.drop = @ + 1]]

\* ref_put(&x0->ref): the count less one, and the drop callback at zero
ref_put(x, c) ==
    LET y == [x EXCEPT !.count = @ - 1]
    IN  IF y.count = 0
        THEN [obj |-> y] @@ test_drop(y, c)
        ELSE [obj |-> y, freed |-> FALSE, c |-> c]

NoRef == [pc |-> "none", count |-> 0, magic |-> <<0, 0>>, gets |-> 0, puts |-> 0]

RefOff == refs = <<>> /\ dropcount = 0 /\ failcount = 0

\* reset_counters(), no object made yet
RefInit ==
    /\ refs = [o \in Objs |-> NoRef]
    /\ dropcount = 0 /\ failcount = 0

\* x0 = ref_new(struct x0, ref, test_drop)
RefNew(o) ==
    /\ refs[o].pc = "none"
    /\ refs' = [refs EXCEPT ![o] = [NoRef EXCEPT !.pc = "new",
                                                 !.count = ref_new.count,
                                                 !.magic = ref_new.magic]]
    /\ UNCHANGED <<dropcount, failcount>>

\* x0->magic = TEST_MAGIC0
RefMagic(o) ==
    /\ refs[o].pc = "new"
    /\ refs' = [refs EXCEPT ![o].pc = "live", ![o].magic = TEST_MAGIC0]
    /\ UNCHANGED <<dropcount, failcount>>

\* x0 = ref_get(x0), by a holder of a reference
RefGet(o) ==
    /\ refs[o].pc = "live" /\ refs[o].gets < MaxGets
    /\ refs' = [refs EXCEPT ![o].count = ref_get(refs[o]).count, ![o].gets = @ + 1]
    /\ UNCHANGED <<dropcount, failcount>>

\* ref_put(&x0->ref), by a holder of a reference
RefPut(o) ==
    /\ refs[o].pc = "live"
    /\ LET r == ref_put(refs[o], [fail |-> failcount, drop |-> dropcount])
       IN  /\ refs' = [refs EXCEPT ![o].count = r.obj.count, ![o].puts = @ + 1,
                                   ![o].pc = IF r.freed THEN "freed"
                                             ELSE IF r.obj.count = 0 THEN "leaked"
                                             ELSE "live"]
           /\ failcount' = r.c.fail /\ dropcount' = r.c.drop

(***************************************************************************)
(* The list of list_test0: the head is node 0 and entries[i] is node i + 1 *)
(* with entries[i].i = i.  A link not yet written is NoLink.               *)
(***************************************************************************)
LHead == 0
NoLink == 0 - 1
LEntries == 1 .. MaxList

\* entries[i].i = i
list_entry_i(e) == e - 1

\* list_init(&list): the head linked to itself
list_init(m) ==
    [next |-> [m.next EXCEPT ![LHead] = LHead],
     prev |-> [m.prev EXCEPT ![LHead] = LHead]]

\* the entry linked in after the head
list_prepend(m, e) ==
    LET first == m.next[LHead]
    IN  [next |-> [m.next EXCEPT ![e] = first, ![LHead] = e],
         prev |-> [m.prev EXCEPT ![e] = LHead, ![first] = e]]

\* list_append(&list, &e->entry): the entry linked in before the head
list_append(m, e) ==
    LET last == m.prev[LHead]
    IN  [next |-> [m.next EXCEPT ![e] = LHead, ![last] = e],
         prev |-> [m.prev EXCEPT ![e] = last, ![LHead] = e]]

\* list_first_entry(&list, ...) and list_last_entry(&list, ...)
list_first_entry(m) == m.next[LHead]
list_last_entry(m) == m.prev[LHead]

ListOff ==
    /\ lmem = <<>> /\ lapp = <<>> /\ lcur = NoLink /\ lseen = <<>> /\ lPc = "off"

\* the declarations: nothing is linked
ListDecl ==
    /\ lmem = [next |-> [k \in {LHead} \cup LEntries |-> NoLink],
               prev |-> [k \in {LHead} \cup LEntries |-> NoLink]]
    /\ lapp = <<>> /\ lcur = NoLink /\ lseen = <<>> /\ lPc = "decl"

\* list_init(&list)
ListInit ==
    /\ lPc = "decl"
    /\ lmem' = list_init(lmem)
    /\ lPc' = "append"
    /\ UNCHANGED <<lapp, lcur, lseen>>

\* list_append(&list, &entries[i].entry) for an entry not in the list
ListAppend(e) ==
    /\ lPc = "append"
    /\ \A k \in 1 .. Len(lapp) : lapp[k] # e
    /\ lmem' = list_append(lmem, e)
    /\ lapp' = Append(lapp, e)
    /\ UNCHANGED <<lcur, lseen, lPc>>

\* list_for_each_entry(e, &list, entry): e = the first entry
ListIter ==
    /\ lPc = "append"
    /\ lcur' = list_first_entry(lmem)
    /\ lPc' = "iter"
    /\ UNCHANGED <<lmem, lapp, lseen>>

\* the body of the loop at e, and e = the next entry
ListVisit ==
    /\ lPc = "iter" /\ lcur # LHead
    /\ lseen' = Append(lseen, list_entry_i(lcur))
    /\ lcur' = lmem.next[lcur]
    /\ UNCHANGED <<lmem, lapp, lPc>>

\* e is the head: the loop is over
ListEnd ==
    /\ lPc = "iter" /\ lcur = LHead
    /\ lPc' = "done"
    /\ UNCHANGED <<lmem, lapp, lcur, lseen>>


(***************************************************************************)
(* terrain_init_square_landscape: the mesh.  The vertex loop writes vertex *)
(* it = i * nr_v + j from the entry t->map[j * nr_v + i], whose value h is  *)
(* an input here; x and z of a vertex are numerators over nr_v - 1.  The   *)
(* index loop writes six indices a quad into idx, an unsigned short array. *)
(***************************************************************************)
USHRT_BITS == 16

\* the resolutions meshed
MeshRes == {2, 3, MaxMeshRes}
\* the values read from t->map
MeshHeights == {0, 3}

MeshArgs ==
    { [x |-> 0, y |-> y, z |-> 0, side |-> 8, nr_v |-> n] : y \in {0, 1}, n \in MeshRes }

\* the entry of t->map read for the vertex (i, j)
mesh_map_idx(n, i, j) == j * n + i

\* vx[it * 3 + 0 .. 2] for the vertex (i, j), h = t->map[j * nr_v + i]
mesh_vertex(a, i, j, h) ==
    [x |-> a.x * (a.nr_v - 1) + j * a.side,
     y |-> a.y + h,
     z |-> a.z * (a.nr_v - 1) + i * a.side]

\* an int stored in an unsigned short
mesh_store(v) == v % Pow(2, USHRT_BITS)

\* the six entries of idx written for the quad (i, j)
mesh_quad(n, i, j) ==
    LET top_left     == i * n + j
        top_right    == top_left + 1
        bottom_left  == (i + 1) * n + j
        bottom_right == bottom_left + 1
    IN  << mesh_store(top_left), mesh_store(bottom_left), mesh_store(top_right),
           mesh_store(top_right), mesh_store(bottom_left), mesh_store(bottom_right) >>

NoVertex == [x |-> 0, y |-> 0, z |-> 0, rd |-> 0, h |-> 0]

MeshOff ==
    /\ mPc = "off" /\ mArgs = NoArgs /\ mi = 0 /\ mj = 0 /\ mit = 0 /\ mbottom = 0
    /\ mvx = NoVertex /\ midx = <<>>

\* the buffers are allocated: for (it = 0, i = 0; ...
MeshInit ==
    /\ mPc = "vx" /\ mArgs \in MeshArgs /\ mi = 0 /\ mj = 0 /\ mit = 0 /\ mbottom = 0
    /\ mvx = NoVertex /\ midx = <<>>

\* one turn of the vertex loop
MeshVertex(h) ==
    /\ mPc = "vx" /\ mi < mArgs.nr_v
    /\ mvx' = mesh_vertex(mArgs, mi, mj, h)
                @@ [rd |-> mesh_map_idx(mArgs.nr_v, mi, mj), h |-> h]
    /\ mit' = mit + 1
    /\ mj' = IF mj + 1 < mArgs.nr_v THEN mj + 1 ELSE 0
    /\ mi' = IF mj + 1 < mArgs.nr_v THEN mi ELSE mi + 1
    /\ UNCHANGED <<mPc, mArgs, mbottom, midx>>

\* bottom = it; for (it = 0, i = 0; ...
MeshBottom ==
    /\ mPc = "vx" /\ mi >= mArgs.nr_v
    /\ mbottom' = mit
    /\ mPc' = "idx" /\ mit' = 0 /\ mi' = 0 /\ mj' = 0
    /\ UNCHANGED <<mArgs, mvx, midx>>

\* one turn of the index loop
MeshQuad ==
    /\ mPc = "idx" /\ mi < mArgs.nr_v - 1
    /\ midx' = mesh_quad(mArgs.nr_v, mi, mj)
    /\ mit' = mit + 6
    /\ mj' = IF mj + 1 < mArgs.nr_v - 1 THEN mj + 1 ELSE 0
    /\ mi' = IF mj + 1 < mArgs.nr_v - 1 THEN mi ELSE mi + 1
    /\ UNCHANGED <<mPc, mArgs, mbottom, mvx>>

\* model3d_new_from_vectors("terrain", prog, vx, vxsz, idx, idxsz, ...)
MeshModel ==
    /\ mPc = "idx" /\ mi >= mArgs.nr_v - 1
    /\ mPc' = "done"
    /\ UNCHANGED <<mArgs, mi, mj, mit, mbottom, mvx, midx>>


(***************************************************************************)
(* The hashmap of util.c.  A list of entries is the sequence of its        *)
(* entries from the head on, list_append adding at the end; an entry is    *)
(* [key, value], a value a pointer: NULL or one of 1 .. MaxVal.            *)
(***************************************************************************)
NULL == 0
EBUSY == 16
ENOMEM == 12

Keys == 0 .. MaxKey
Vals == 1 .. MaxVal
NoEntry == [key |-> 0 - 1, value |-> NULL]

\* a & b for naturals
RECURSIVE BitAnd(_, _)
BitAnd(a, b) ==
    IF a = 0 \/ b = 0 THEN 0
    ELSE (a % 2) * (b % 2) + 2 * BitAnd(a \div 2, b \div 2)

\* hash_simple(hm, key) = key & (hm->nr_buckets - 1); nr_buckets is a
\* size_t, so for 0 buckets the mask 0 - 1 is all ones
hash_simple(nb, key) == IF nb = 0 THEN key ELSE BitAnd(key, nb - 1)

\* nr_buckets & (nr_buckets - 1): 0 & (0 - 1) = 0
hashmap_init_rejects(nb) == nb # 0 /\ BitAnd(nb, nb - 1) # 0

\* struct hashmap before hashmap_init
NoHm == [nr_buckets |-> 0, buckets |-> <<>>, list |-> <<>>]

\* hashmap_init(hm, nr_buckets) when it returns 0
hashmap_init(nb) ==
    [nr_buckets |-> nb, buckets |-> [b \in 0 .. nb - 1 |-> <<>>], list |-> <<>>]

\* what the memory at hm->buckets[hash] reads as when hash is outside the
\* array: a list of nothing, or of some entry
HeapBuckets ==
    {<<>>} \cup { <<[key |-> k, value |-> MaxVal + 1]>> : k \in Keys }

\* _hashmap_find(hm, key, &hash): the first entry of the bucket with the key
hashmap_find_entry(h, key, g) ==
    LET hash   == hash_simple(h.nr_buckets, key)
        bucket == IF hash \in DOMAIN h.buckets THEN h.buckets[hash] ELSE g
        hits   == {k \in 1 .. Len(bucket) : bucket[k].key = key}
    IN  [hash |-> hash,
         e    |-> IF hits = {} THEN NoEntry
                  ELSE bucket[CHOOSE k \in hits : \A k2 \in hits : k <= k2]]

\* hashmap_find(hm, key)
hashmap_find(h, key, g) == hashmap_find_entry(h, key, g).e.value

\* list_del(&e->entry): the list without the entry e
list_del(l, e) ==
    LET at == {k \in 1 .. Len(l) : l[k] = e}
    IN  IF at = {} THEN l
        ELSE LET k0 == CHOOSE k \in at : \A k2 \in at : k <= k2
             IN  SubSeq(l, 1, k0 - 1) \o SubSeq(l, k0 + 1, Len(l))

\* hashmap_delete(hm, key) for a key whose bucket is inside the array
hashmap_delete(h, key) ==
    LET f == hashmap_find_entry(h, key, <<>>)
    IN  IF f.e = NoEntry THEN h
        ELSE [h EXCEPT !.buckets[f.hash] = list_del(@, f.e),
                       !.list = list_del(@, f.e)]

\* hashmap_insert(hm, key, value): oom is calloc returning NULL; an append
\* to a bucket outside the array writes outside it and leaves the array alone
hashmap_insert(h, key, value, g, oom) ==
    LET f == hashmap_find_entry(h, key, g)
        e == [key |-> key, value |-> value]
    IN  IF f.e # NoEntry THEN [ret |-> 0 - EBUSY, hm |-> h]
        ELSE IF oom THEN [ret |-> 0 - ENOMEM, hm |-> h]
        ELSE [ret |-> 0,
              hm  |-> [h EXCEPT !.buckets = IF f.hash \in DOMAIN h.buckets
                                             THEN [@ EXCEPT ![f.hash] = Append(@, e)]
                                             ELSE @,
                                !.list = Append(@, e)]]

\* the bucket of the key is outside the array
HashOutside(key) == hash_simple(hm.nr_buckets, key) \notin DOMAIN hm.buckets
HashGarbage(key) == IF HashOutside(key) THEN HeapBuckets ELSE {<<>>}

NoRet == [op |-> "none", key |-> 0, ret |-> 0]

HashOff == hm = NoHm /\ hPc = "off" /\ hRet = NoRet /\ hMap = <<>>

\* struct hashmap hm; not yet set up
HashDecl == hm = NoHm /\ hPc = "decl" /\ hRet = NoRet /\ hMap = <<>>

HashmapInit(nb) ==
    /\ hPc \in {"decl", "rejected"}
    /\ IF hashmap_init_rejects(nb)
       THEN /\ hRet' = [op |-> "init", key |-> nb, ret |-> 0 - 1]
            /\ hPc' = "rejected" /\ UNCHANGED hm
       ELSE /\ hRet' = [op |-> "init", key |-> nb, ret |-> 0]
            /\ hPc' = "ready" /\ hm' = hashmap_init(nb)
    /\ UNCHANGED hMap

HashmapFind(key) ==
    /\ hPc = "ready"
    /\ \E g \in HashGarbage(key) :
          hRet' = [op |-> "find", key |-> key, ret |-> hashmap_find(hm, key, g)]
    /\ UNCHANGED <<hm, hPc, hMap>>

HashmapInsert(key, value) ==
    /\ hPc = "ready" /\ Len(hm.list) < MaxEntries
    /\ \E g \in HashGarbage(key), oom \in BOOLEAN :
          LET r == hashmap_insert(hm, key, value, g, oom)
          IN  /\ hm' = r.hm
              /\ hRet' = [op |-> "insert", key |-> key, ret |-> r.ret]
              /\ hMap' = IF r.ret = 0
                         THEN [k \in DOMAIN hMap \cup {key} |->
                                  IF k = key THEN value ELSE hMap[k]]
                         ELSE hMap
    /\ UNCHANGED hPc

\* hashmap_delete(hm, key) with the bucket inside the array, or outside it
\* and read as a list without the key
HashmapDelete(key) ==
    /\ hPc = "ready"
    /\ hm' = hashmap_delete(hm, key)
    /\ hRet' = [op |-> "delete", key |-> key, ret |-> 0]
    /\ hMap' = [k \in DOMAIN hMap \ {key} |-> hMap[k]]
    /\ UNCHANGED hPc

\* a call that walks or unlinks what lies outside the bucket array faults
HashmapFault(key) ==
    /\ hPc = "ready" /\ HashOutside(key)
    /\ hPc' = "fault"
    /\ hRet' = [op |-> "fault", key |-> key, ret |-> 0]
    /\ UNCHANGED <<hm, hMap>>


(***************************************************************************)
(* The specifications: each component run on its own inputs.               *)
(***************************************************************************)
InitCA == CaInit /\ BspOff /\ QOff /\ RngOff /\ BuildOff /\ PlaceOff /\ FillOff /\ RefOff /\ ListOff /\ MeshOff /\ HashOff

NextCA ==
    \/ UNCHANGED <<bspVars, qVars, rngVars, buildVars, placeVars, fillVars, refVars, listVars, meshVars, hashVars>> /\ CaSeed
    \/ UNCHANGED <<bspVars, qVars, rngVars, buildVars, placeVars, fillVars, refVars, listVars, meshVars, hashVars>> /\ CaCell
    \/ UNCHANGED <<bspVars, qVars, rngVars, buildVars, placeVars, fillVars, refVars, listVars, meshVars, hashVars>> /\ CaNextPass
    \/ UNCHANGED <<bspVars, qVars, rngVars, buildVars, placeVars, fillVars, refVars, listVars, meshVars, hashVars>> /\ CaNextRule
    \/ UNCHANGED <<bspVars, qVars, rngVars, buildVars, placeVars, fillVars, refVars, listVars, meshVars, hashVars>> /\ CaDone

SpecCA == InitCA /\ [][NextCA]_vars

InitBSP == BspInit /\ CaOff /\ QOff /\ RngOff /\ BuildOff /\ PlaceOff /\ FillOff /\ RefOff /\ ListOff /\ MeshOff /\ HashOff

NextBSP ==
    \/ UNCHANGED <<caVars, qVars, rngVars, buildVars, placeVars, fillVars, refVars, listVars, meshVars, hashVars>> /\ \E d \in FracDraws : BspPartOne(d, FracDen)
    \/ UNCHANGED <<caVars, qVars, rngVars, buildVars, placeVars, fillVars, refVars, listVars, meshVars, hashVars>> /\ \E d \in AmpDraws, r \in OctDraws : BspLeaf(d, FracDen, r)
    \/ UNCHANGED <<caVars, qVars, rngVars, buildVars, placeVars, fillVars, refVars, listVars, meshVars, hashVars>> /\ BspTrap
    \/ UNCHANGED <<caVars, qVars, rngVars, buildVars, placeVars, fillVars, refVars, listVars, meshVars, hashVars>> /\ BspDone

SpecBSP == InitBSP /\ [][NextBSP]_vars

InitQuery == QInit /\ CaOff /\ BspOff /\ RngOff /\ BuildOff /\ PlaceOff /\ FillOff /\ RefOff /\ ListOff /\ MeshOff /\ HashOff

NextQuery ==
    \/ UNCHANGED <<caVars, bspVars, rngVars, buildVars, placeVars, fillVars, refVars, listVars, meshVars, hashVars>>
          /\ \E xn \in QCoords(t.x), zn \in QCoords(t.z) : TerrainHeight(xn, zn)
    \/ UNCHANGED <<caVars, bspVars, rngVars, buildVars, placeVars, fillVars, refVars, listVars, meshVars, hashVars>>
          /\ \E xn \in QCoords(t.x), zn \in QCoords(t.z) : TerrainNormal(xn, zn)
    \/ UNCHANGED <<caVars, bspVars, rngVars, buildVars, placeVars, fillVars, refVars, listVars, meshVars, hashVars>> /\ QNext

SpecQuery == InitQuery /\ [][NextQuery]_vars

InitRand == RandInit /\ RandTerrain /\ CaOff /\ BspOff /\ BuildOff /\ PlaceOff /\ FillOff /\ RefOff /\ ListOff /\ MeshOff /\ HashOff

NextRand ==
    \/ UNCHANGED <<caVars, bspVars, qVars, buildVars, placeVars, fillVars, refVars, listVars, meshVars, hashVars>> /\ RandOtherDraw
    \/ UNCHANGED <<caVars, bspVars, qVars, buildVars, placeVars, fillVars, refVars, listVars, meshVars, hashVars>>
          /\ \E x \in 0 .. MaxCell, z \in 0 .. MaxCell : GetRandHeight(x, z)

SpecRand == InitRand /\ [][NextRand]_vars

\* what a build leaves alone: the automaton's loop state, the query, the
\* record of get_rand_height calls
buildFrame == <<caVars, qx, qz, qRet, qReads, qPc, rhx, rhz, rhRet, rhFirst, placeVars, fillVars, refVars, listVars, meshVars, hashVars>>

InitBuild == BuildInit /\ RandInit /\ CaOff /\ BspOff /\ QOff /\ PlaceOff /\ FillOff /\ RefOff /\ ListOff /\ MeshOff /\ HashOff

NextBuild ==
    \/ UNCHANGED buildFrame /\ \E a \in BuildArgs \cup BadArgs : BuildCall(a)
    \/ UNCHANGED buildFrame /\ BuildMaze
    \/ UNCHANGED buildFrame /\ \E sd \in Seeds : BuildSeed(sd)
    \/ UNCHANGED buildFrame /\ BuildBspPartOne
    \/ UNCHANGED buildFrame /\ \E r \in OctDraws : BuildBspLeaf(r)
    \/ UNCHANGED buildFrame /\ BuildBspTrap
    \/ UNCHANGED buildFrame /\ BuildMap0
    \/ UNCHANGED buildFrame /\ BuildMap
    \/ UNCHANGED buildFrame /\ BuildFree
    \/ UNCHANGED buildFrame /\ BuildReturn
    \/ UNCHANGED buildFrame /\ BuildOtherDraw

SpecBuild == InitBuild /\ [][NextBuild]_vars

\* what the placement leaves alone
placeFrame ==
    <<caVars, bspVars, rngVars, qx, qz, qRet, qReads, qPc, bPc, bArgs, built, bLog, fillVars, refVars, listVars, meshVars, hashVars>>

InitPlace ==
    /\ PlaceInit /\ CaOff /\ BspOff /\ RngOff
    /\ qx = 0 /\ qz = 0 /\ qRet = Num(0) /\ qReads = {} /\ qPc = "off"
    /\ bPc = "off" /\ bArgs = NoArgs /\ built = NoBuild /\ bLog = <<>>
    /\ FillOff /\ RefOff /\ ListOff /\ MeshOff /\ HashOff

NextPlace ==
    \/ UNCHANGED placeFrame /\ PlaceRules
    \/ UNCHANGED placeFrame /\ PlaceCell

SpecPlace == InitPlace /\ [][NextPlace]_vars

\* what the fill of t->map leaves alone
fillFrame ==
    <<caVars, bspVars, rngVars, qx, qz, qRet, qReads, qPc, placeVars,
      refVars, listVars, meshVars, hashVars>>

InitFill ==
    /\ FillInit /\ CaOff /\ BspOff /\ RngOff /\ PlaceOff /\ RefOff /\ ListOff /\ MeshOff /\ HashOff
    /\ qx = 0 /\ qz = 0 /\ qRet = Num(0) /\ qReads = {} /\ qPc = "off"

NextFill ==
    \/ UNCHANGED fillFrame /\ \E idx \in FillCells(t) : FillCell(idx)
    \/ UNCHANGED fillFrame /\ FillDone

SpecFill == InitFill /\ [][NextFill]_vars

\* what the reference counts and the list leave alone
terrainVars == <<caVars, bspVars, qVars, rngVars, buildVars, placeVars, fillVars>>

InitRef ==
    /\ RefInit /\ ListOff /\ MeshOff /\ HashOff /\ FillOff /\ CaOff /\ BspOff /\ QOff /\ RngOff /\ BuildOff /\ PlaceOff

NextRef ==
    \/ UNCHANGED <<terrainVars, listVars, meshVars, hashVars>> /\ \E o \in Objs : RefNew(o)
    \/ UNCHANGED <<terrainVars, listVars, meshVars, hashVars>> /\ \E o \in Objs : RefMagic(o)
    \/ UNCHANGED <<terrainVars, listVars, meshVars, hashVars>> /\ \E o \in Objs : RefGet(o)
    \/ UNCHANGED <<terrainVars, listVars, meshVars, hashVars>> /\ \E o \in Objs : RefPut(o)

SpecRef == InitRef /\ [][NextRef]_vars

InitList ==
    /\ ListDecl /\ RefOff /\ MeshOff /\ HashOff /\ FillOff /\ CaOff /\ BspOff /\ QOff /\ RngOff /\ BuildOff /\ PlaceOff

NextList ==
    \/ UNCHANGED <<terrainVars, refVars, meshVars, hashVars>> /\ ListInit
    \/ UNCHANGED <<terrainVars, refVars, meshVars, hashVars>> /\ \E e \in LEntries : ListAppend(e)
    \/ UNCHANGED <<terrainVars, refVars, meshVars, hashVars>> /\ ListIter
    \/ UNCHANGED <<terrainVars, refVars, meshVars, hashVars>> /\ ListVisit
    \/ UNCHANGED <<terrainVars, refVars, meshVars, hashVars>> /\ ListEnd

SpecList == InitList /\ [][NextList]_vars

InitMesh ==
    /\ MeshInit /\ HashOff /\ RefOff /\ ListOff /\ FillOff /\ CaOff /\ BspOff /\ QOff
    /\ RngOff /\ BuildOff /\ PlaceOff

NextMesh ==
    \/ UNCHANGED <<terrainVars, refVars, listVars, hashVars>>
          /\ \E h \in MeshHeights : MeshVertex(h)
    \/ UNCHANGED <<terrainVars, refVars, listVars, hashVars>> /\ MeshBottom
    \/ UNCHANGED <<terrainVars, refVars, listVars, hashVars>> /\ MeshQuad
    \/ UNCHANGED <<terrainVars, refVars, listVars, hashVars>> /\ MeshModel

SpecMesh == InitMesh /\ [][NextMesh]_vars

InitHash ==
    /\ HashDecl /\ MeshOff /\ RefOff /\ ListOff /\ FillOff /\ CaOff /\ BspOff /\ QOff
    /\ RngOff /\ BuildOff /\ PlaceOff

NextHash ==
    \/ UNCHANGED <<terrainVars, refVars, listVars, meshVars>>
          /\ \E nb \in 0 .. MaxBuckets : HashmapInit(nb)
    \/ UNCHANGED <<terrainVars, refVars, listVars, meshVars>>
          /\ \E key \in Keys : HashmapFind(key)
    \/ UNCHANGED <<terrainVars, refVars, listVars, meshVars>>
          /\ \E key \in Keys, value \in Vals : HashmapInsert(key, value)
    \/ UNCHANGED <<terrainVars, refVars, listVars, meshVars>>
          /\ \E key \in Keys : HashmapDelete(key)
    \/ UNCHANGED <<terrainVars, refVars, listVars, meshVars>>
          /\ \E key \in Keys : HashmapFault(key)

SpecHash == InitHash /\ [][NextHash]_vars


(***************************************************************************)
(* Properties of the automaton engine.                                     *)
(***************************************************************************)
CaCells == 0 .. caSide - 1

\* a pass that reads only the grid `a` as it was and writes a fresh grid
sync_step(rule, a, side) ==
    [idx \in 0 .. side * side - 1 |->
        cell_aut_cell(rule, a, side, idx % side, idx \div side)[idx]]

\* C2: when a pass of cell_aut_step is over, the grid equals the synchronous
\* step of the grid as it was when the pass started (no cell was computed
\* from a neighbour already rewritten by the same pass).
C2_SynchronousStep ==
    caPc = "iter" => arr = sync_step(ca, arr0, caSide)

\* the value at (x, y) with both coordinates taken modulo the width
torus_get(a, width, x, y) == a[(y % width) * width + (x % width)]

torus_vn1(a, side, x, y) ==
      B2I(torus_get(a, side, x + 1, y) # 0)
    + B2I(torus_get(a, side, x - 1, y) # 0)
    + B2I(torus_get(a, side, x, y + 1) # 0)
    + B2I(torus_get(a, side, x, y - 1) # 0)

\* C3: the grid is toroidal: the orthogonal neighbour count of every cell
\* counts the cells across the edges, a coordinate outside [0, width) being
\* read modulo the width and not as an empty cell.
C3_ToroidalNeighbours ==
    caPc # "seed" =>
        \A x \in CaCells, y \in CaCells :
            /\ neigh_vn1(arr, caSide, x, y) = torus_vn1(arr, caSide, x, y)
            /\ xyarray_get(arr, caSide, x - 1, y) = torus_get(arr, caSide, x - 1, y)
            /\ xyarray_get(arr, caSide, x + 1, y) = torus_get(arr, caSide, x + 1, y)

\* the rule of section 4.1 for a cell of value v with neighbour count n
rule_table(rule, v, n) ==
    CASE v = 0 /\ BitSet(rule.born, n) -> rule.nr_states
      [] ~(v = 0 /\ BitSet(rule.born, n)) /\ v # 0 /\ BitSet(rule.surv, n) -> v
      [] ~(v = 0 /\ BitSet(rule.born, n)) /\ ~(v # 0 /\ BitSet(rule.surv, n))
            /\ v # 0 /\ rule.decay -> v - 1
      [] OTHER -> v

\* C4: every cell update of a pass rewrites exactly the visited cell, to the
\* value the rule gives for that cell's value v and neighbour count n: born
\* -> nr_states, survives -> v, decays -> v - 1, otherwise v; v stays in
\* [0, nr_states] and n in 0..8.
C4_CellRule ==
    [][caPc = "cell" =>
         LET idx == cj * caSide + ci
             v   == arr[idx]
             n   == ca_neigh(ca, arr, caSide, ci, cj)
         IN  /\ v \in 0 .. ca.nr_states
             /\ n \in 0 .. 8
             /\ arr' = [arr EXCEPT ![idx] = rule_table(ca, v, n)]]_vars

\* a pass of the maze rule is over in which one cell was born and another
\* decayed, on a grid with a cell that has all eight neighbours alive
C4_Witness ==
    /\ caPc = "iter" /\ caPhase = 0 /\ caSide = 3
    /\ \E idx \in DOMAIN arr : arr0[idx] = 0 /\ arr[idx] = ca.nr_states
    /\ \E idx \in DOMAIN arr : arr0[idx] # 0 /\ arr[idx] = arr0[idx] - 1
    /\ \E idx \in DOMAIN arr : arr0[idx] # 0 /\ arr[idx] = arr0[idx]
    /\ \E idx \in DOMAIN arr : arr0[idx] = 0 /\ arr[idx] = 0

\* C23: in maze generation every cell of the grid holds a value in
\* [0, nr_states] after seeding and after every update of a pass of the maze
\* rule; seeding sets each cell to nr_states or to 0; and no update takes a
\* cell below 0 (as an unsigned char: to 255).
C23_StateRange ==
    (caPhase = 0 /\ caPc \in {"cell", "iter"}) =>
        /\ \A idx \in DOMAIN arr : arr[idx] \in 0 .. ca.nr_states
        /\ caStep = 0 => \A idx \in DOMAIN arr0 : arr0[idx] \in {0, ca.nr_states}

\* the last pass of the maze rule is over, on a grid seeded with cells of both
\* values, with a cell that has decayed in every pass, a cell that decayed in
\* this pass and a cell that is 0 and was not born
C23_Witness ==
    /\ caPc = "iter" /\ caPhase = 0 /\ caStep = MazeSteps - 1
    /\ \E idx \in DOMAIN arr : arr[idx] = ca.nr_states - MazeSteps
    /\ \E idx \in DOMAIN arr : arr0[idx] # 0 /\ arr[idx] = arr0[idx] - 1
    /\ \E idx \in DOMAIN arr : arr0[idx] = 0 /\ arr[idx] = 0

(***************************************************************************)
(* Properties of the BSP partitioner.                                      *)
(***************************************************************************)
BspInternal == {p \in DOMAIN bsp : Append(p, 0) \in DOMAIN bsp}
BspLeaves ==
    {p \in DOMAIN bsp : Append(p, 0) \notin DOMAIN bsp /\ Append(p, 1) \notin DOMAIN bsp}

\* C6: for every internal node, area(left) + area(right) = area(node),
\* whatever the root rectangle and the split fractions drawn.
C6_AreaAdds ==
    bspPc # "off" =>
        \A p \in BspInternal :
            bsp_area(bsp[Append(p, 0)]) + bsp_area(bsp[Append(p, 1)]) = bsp_area(bsp[p])

\* a finished tree with a split along each axis, one of them uneven
C6_Witness ==
    /\ bspPc = "done"
    /\ \E p \in BspInternal : bsp[Append(p, 0)].w # bsp[p].w
    /\ \E p \in BspInternal :
          /\ bsp[Append(p, 0)].h # bsp[p].h
          /\ bsp[Append(p, 0)].h # bsp[Append(p, 1)].h

\* the cells around and inside the largest root
BspCells == (0 - 2) .. (MaxRoot + 2)

\* C7: in a built tree every node has both children or none, and every grid
\* cell of the root rectangle lies in exactly one leaf rectangle, a cell
\* outside the root in none.
C7_LeavesTileRoot ==
    bspPc = "done" =>
        /\ \A p \in DOMAIN bsp : Append(p, 0) \in DOMAIN bsp <=> Append(p, 1) \in DOMAIN bsp
        /\ \A x \in BspCells, y \in BspCells :
              Cardinality({l \in BspLeaves : bsp_within_rect(bsp[l], x, y)})
                  = IF bsp_within_rect(bsp[<<>>], x, y) THEN 1 ELSE 0

\* a built tree of at least four leaves that are not empty
C7_Witness ==
    /\ bspPc = "done"
    /\ Cardinality({l \in BspLeaves : bsp_area(bsp[l]) > 0}) >= 4

\* C24: the construction of the tree terminates: bsp_process is never left
\* in a state it cannot go on from before it has returned, no split is
\* started at a level above 17 (no node lies deeper than 18), and when it has
\* returned the leaf callback has run for every leaf and for no other node.
C24_Terminates ==
    /\ bspPc = "done" \/ ENABLED NextBSP
    /\ \A k \in 1 .. Len(bspStack) :
          BspSplits(bspStack[k]) => BspSplitLevel(bspStack[k]) <= 17
    /\ \A p \in DOMAIN bsp : Len(p) <= 18
    /\ bspPc = "done" => \A p \in DOMAIN bsp : p \in BspLeaves <=> bsp[p].oct # 0

\* C26: no split makes an empty child: every node of the tree of a root with
\* width and height >= 2 has width >= 1 and height >= 1, and neither
\* bsp_needs_split nor bsp_part_one divides by zero.
C26_NoEmptyChild ==
    /\ \A p \in DOMAIN bsp : bsp[p].w >= 1 /\ bsp[p].h >= 1
    /\ (bspPc = "run" /\ bspStack # <<>>) => ~BspDiv0(BspTop)
    /\ bspPc # "sigfpe"

\* the fraction num / (len / 2) lies in [-1, 1]
frac_in_range(num, len) == len > 0 /\ 2 * num <= len /\ 0 - 2 * num <= len

\* C27: for every point (x, y) of the root rectangle bsp_find returns a leaf
\* whose rectangle contains (x, y), and the fractions bsp_xfrac and bsp_yfrac
\* of the point in that leaf lie in [-1, 1].
C27_FindContains ==
    bspPc = "done" =>
        \A x \in 0 .. bsp[<<>>].w - 1, y \in 0 .. bsp[<<>>].h - 1 :
            LET l == bsp_find(bsp, x, y)
                n == bsp[l]
            IN  /\ l \in BspLeaves
                /\ bsp_within_rect(n, x, y)
                /\ frac_in_range(x - n.x - CDiv(n.w, 2), n.w)
                /\ frac_in_range(y - n.y - CDiv(n.h, 2), n.h)

(***************************************************************************)
(* Properties of the height query.                                         *)
(***************************************************************************)
\* (x, z) lies strictly outside [t.x, t.x + side] x [t.z, t.z + side]
QOutsideRect ==
    \/ qx < t.x * QDen \/ qx > (t.x + t.side) * QDen
    \/ qz < t.z * QDen \/ qz > (t.z + t.side) * QDen

\* C8: for (x, z) strictly outside the terrain's rect terrain_height returns
\* 0 and reads no entry of height_map.
C8_OutsideIsZero ==
    (qPc = "ret" /\ QOutsideRect) => (qRet = Num(0) /\ qReads = {})

\* a call beyond the far edge in x with z in range, and one beyond it in z
C8_Witness ==
    /\ qPc = "ret" /\ qRet = Num(0) /\ qReads = {}
    /\ qx > (t.x + t.side) * QDen
    /\ qz >= t.z * QDen /\ qz <= (t.z + t.side) * QDen
    /\ \A idx \in DOMAIN t.map : t.map[idx] # 0

\* (qx, qz) is the grid vertex (gx, gz)
QAtVertex(gx, gz) ==
    /\ (qx - t.x * QDen) * (t.nr_vert - 1) = gx * QDen * t.side
    /\ (qz - t.z * QDen) * (t.nr_vert - 1) = gz * QDen * t.side

\* C9: at every grid vertex (gx, gz), 0 <= gx, gz <= nr_vert - 1, the four
\* corners included, terrain_height returns height_map[gx][gz].
C9_VertexHeight ==
    qPc = "ret" =>
        \A gx \in 0 .. t.nr_vert - 1, gz \in 0 .. t.nr_vert - 1 :
            QAtVertex(gx, gz) =>
                qRet = Num(t.map[gx * t.nr_vert + gz] * th_den(t))

\* C11: for every (x, z) outside the terrain's rect both terrain_height and
\* terrain_normal return a defined result and read height_map only at
\* indices in [0, nr_vert * nr_vert).
C11_OutsideNoRead ==
    (qPc \in {"ret", "nret"} /\ QOutsideRect) =>
        (qRet.kind = "num" /\ qReads \subseteq 0 .. t.nr_vert * t.nr_vert - 1)

\* C25: for every (x, z) inside the terrain's rect, its bounds included,
\* terrain_height reads t->map only at indices in [0, nr_vert * nr_vert).
C25_InsideReadsInRange ==
    (qPc = "ret" /\ ~th_outside(t, qx, qz)) =>
        qReads \subseteq 0 .. t.nr_vert * t.nr_vert - 1

(***************************************************************************)
(* Properties of the seed-height generator.                                *)
(***************************************************************************)
\* C5: get_rand_height returns for (seed, x, z) what it returned the first
\* time it was called for (seed, x, z), whatever cells were asked for in
\* between and whatever state the process-wide generator was in.
C5_RandHeightTransparent ==
    (rhFirst # NoCall /\ rhx = rhFirst.x /\ rhz = rhFirst.z) => rhRet = rhFirst.ret

\* a cell is asked for again with the generator in another state than the
\* one its call leaves, and the same value comes back
C5_Witness ==
    /\ rhFirst # NoCall /\ rhx = rhFirst.x /\ rhz = rhFirst.z
    /\ rng # get_rand_height(t.seed, rhx, rhz, 0).rng
    /\ rhRet = rhFirst.ret
    /\ rhRet # get_rand_height(t.seed, rhx + 1, rhz, 0).ret


(***************************************************************************)
(* Properties of the built height field.                                   *)
(***************************************************************************)
\* a second terrain is finished while the first is on record
BuiltTwice == bPc = "done" /\ built # NoBuild

\* C1: two builds with the same seed and the same arguments (origin, side,
\* resolution) give the same height_map, whatever state the process-wide
\* generator was in when each build started.
C1_SameSeedSameMap ==
    (BuiltTwice /\ built.seed = t.seed /\ built.args = bArgs) => built.map = t.map

\* t->map is filled
MapBuilt == bPc \in {"free", "done"}

\* the last row and column of t->map are kept
EdgeKept == (bArgs.nr_v - 1) % MAZE_FAC = 0

\* C10: the seam is continuous: the stored heights on opposite edges of the
\* built height_map are equal, column 0 against column nr_v - 1 for every z
\* and row 0 against row nr_v - 1 for every x.
C10_SeamContinuous ==
    (MapBuilt /\ EdgeKept) =>
        \A k \in Lattice(bArgs.nr_v) :
            /\ t.map[0 * t.nr_vert + k] = t.map[(t.nr_vert - 1) * t.nr_vert + k]
            /\ t.map[k * t.nr_vert + 0] = t.map[k * t.nr_vert + (t.nr_vert - 1)]


\* C15: the fill of height_map is order-independent: in whatever order the
\* cells have been evaluated so far, every cell written holds the value the
\* sequential loop gives it, which depends on the seed, the maze and the
\* seed grid only, and every cell not yet written is untouched.
C15_OrderIndependent ==
    bPc \in {"map", "free"} /\ fillOrd # <<>> =>
        \A idx \in FillCells(t) :
            t.map[idx] =
                IF \E k \in 1 .. Len(fillOrd) : fillOrd[k] = idx
                THEN terrain_map(t, maze, bArgs.nr_v \div MAZE_FAC)[idx]
                ELSE 0

\* the loop is over, its cells taken last to first, and the heights differ
C15_Witness ==
    /\ bPc = "free"
    /\ Len(fillOrd) > 1
    /\ \A k \in 1 .. Len(fillOrd) - 1 : fillOrd[k] > fillOrd[k + 1]
    /\ \E i \in FillCells(t), j \in FillCells(t) : t.map[i] # t.map[j]

\* C16: the octave count passed to the height synthesizer for a cell is the
\* one of the BSP leaf that contains the cell, and the base amplitude passed
\* is a blend of the amplitudes of that leaf and its two neighbours, so it
\* lies between the least and the greatest of them.
C16_LeafParamsUsed ==
    bPc = "map" =>
        \A i \in Lattice(bArgs.nr_v), j \in Lattice(bArgs.nr_v) :
            LET args == get_height_args(maze, bArgs.nr_v \div MAZE_FAC, i, j)
                used == args.amp[1] * RngMod
                amps == {bsp[p].amp * args.amp[2] : p \in bsp_amp_nodes(bsp, i, j)}
            IN  /\ args.oct = bsp[bsp_find(bsp, i, j)].oct
                /\ \E lo \in amps : lo <= used
                /\ \E hi \in amps : used <= hi

region_test(tr, p, x, y) ==
    IF Append(p, 0) \in DOMAIN tr /\ Append(p, 1) \in DOMAIN tr
    THEN bsp_within_ellipse(tr[p], x, y)
    ELSE bsp_within_rect(tr[p], x, y)

\* C19: at each internal node of a built tree bsp_find descends into the
\* larger child when the region test on that child contains (x, y) and into
\* the other child otherwise, the region test being the ellipse test when the
\* child has been split again and the rectangle test otherwise.
C19_RegionTest ==
    bspPc = "done" =>
        \A p \in BspInternal : \A x \in BspCells, y \in BspCells :
            LET ab == bsp_larger_smaller(bsp, Append(p, 0), Append(p, 1))
            IN  bsp_find_step(bsp, p, x, y)
                    = IF region_test(bsp, ab[1], x, y) THEN ab[1] ELSE ab[2]

\* C20: forced splitting overrides the stop conditions, so no leaf of a
\* built tree has an area above a quarter of the root's area or a depth
\* (the number of splits above it) below 3.
C20_ForcedSplit ==
    bspPc = "done" =>
        \A l \in BspLeaves :
            /\ bsp_area(bsp[l]) <= CDiv(bsp_area(bsp[<<>>]), 4)
            /\ Len(l) >= 3

\* C21: the seed-grid lookup is toroidal: for every xi, zi from -1 to
\* nr_vert + 1 get_mapped_rand_height returns the seed-grid value at
\* (xi mod nr_vert, zi mod nr_vert), so the smoothed height is periodic:
\* get_avg_height(x + nr_vert, z) = get_avg_height(x, z), likewise in z.
C21_ToroidalLookup ==
    bPc = "map" =>
        LET n == t.nr_vert
        IN  /\ \A xi \in (0 - 1) .. (n + 1), zi \in (0 - 1) .. (n + 1) :
                  get_mapped_rand_height(t, xi, zi) = t.map0[(xi % n) * n + (zi % n)]
            /\ \A z \in 0 .. n - 1 :
                  /\ get_avg_height(t, 0 + n, z) = get_avg_height(t, 0, z)
                  /\ get_avg_height(t, z, 0 + n) = get_avg_height(t, z, 0)

\* the quad the index loop wrote last
MeshLastQuad ==
    [i |-> ((mit \div 6) - 1) \div (mArgs.nr_v - 1),
     j |-> ((mit \div 6) - 1) % (mArgs.nr_v - 1)]

\* C22: the mesh has nr_v * nr_v vertices and 6 * (nr_v - 1)^2 indices; the
\* indices stored for the quad (i, j) are (top_left, bottom_left, top_right)
\* and (top_right, bottom_left, bottom_right), each the number of the
\* intended vertex and below nr_v * nr_v.
C22_MeshIndices ==
    LET n == mArgs.nr_v
    IN  /\ mPc \in {"idx", "done"} => mbottom = n * n
        /\ mPc = "done" => mit = 6 * (n - 1) * (n - 1)
        /\ mPc \in {"idx", "done"} /\ mit > 0 =>
              LET tl == MeshLastQuad.i * n + MeshLastQuad.j
                  bl == (MeshLastQuad.i + 1) * n + MeshLastQuad.j
              IN  /\ midx = <<tl, bl, tl + 1, tl + 1, bl, bl + 1>>
                  /\ \A k \in 1 .. 6 : midx[k] < n * n

\* C28: the mesh agrees with the height query: the y of the vertex written
\* for the grid position (gx, gz) is height_map[gx][gz], the entry
\* terrain_height reads for that vertex, whatever the origin; and the edge
\* the two triangles of a quad share is the one the triangles A and B of
\* terrain_height share.
C28_MeshAgreesWithQuery ==
    LET n == mArgs.nr_v
    IN  /\ mPc = "vx" /\ mit > 0 =>
              LET gx == (mvx.x - mArgs.x * (n - 1)) \div mArgs.side
                  gz == (mvx.z - mArgs.z * (n - 1)) \div mArgs.side
              IN  /\ mvx.rd = th_idx([nr_vert |-> n], gx, gz)
                  /\ mvx.y = mvx.h
        /\ mPc = "idx" /\ mit > 0 =>
              LET q    == MeshLastQuad
                  tri1 == {midx[1], midx[2], midx[3]}
                  tri2 == {midx[4], midx[5], midx[6]}
              IN  {mesh_map_idx(n, v \div n, v % n) : v \in tri1 \cap tri2}
                      = {th_idx([nr_vert |-> n], q.j + 1, q.i),
                         th_idx([nr_vert |-> n], q.j, q.i + 1)}

\* the entries of a list, as a set
SeqSet(l) == {l[k] : k \in 1 .. Len(l)}

\* the bucket lists and the global list hold the same entries, each key at
\* most once, and they are the pairs of the partial map
HmConsistent ==
    /\ UNION {SeqSet(hm.buckets[b]) : b \in DOMAIN hm.buckets} = SeqSet(hm.list)
    /\ Cardinality({e.key : e \in SeqSet(hm.list)}) = Len(hm.list)
    /\ \A b \in DOMAIN hm.buckets :
          Cardinality(SeqSet(hm.buckets[b])) = Len(hm.buckets[b])
    /\ SeqSet(hm.list) = {[key |-> k, value |-> hMap[k]] : k \in DOMAIN hMap}

\* C29: the hashmap is a partial map: hashmap_find(k) returns the value of
\* the successful insert of k not deleted since and NULL if there is none;
\* hashmap_insert of a key that is present returns -EBUSY and changes
\* nothing; the bucket lists and the global list hold the same entries, each
\* key at most once.
C29_PartialMap ==
    [][ hPc' = "ready" =>
          /\ hRet'.op = "find" =>
                hRet'.ret = IF hRet'.key \in DOMAIN hMap THEN hMap[hRet'.key] ELSE NULL
          /\ (hRet'.op = "insert" /\ hRet'.key \in DOMAIN hMap) =>
                (hRet'.ret = 0 - EBUSY /\ hm' = hm)
          /\ HmConsistent' ]_vars

\* a count of buckets that is a power of two
IsPow2(nb) == \E e \in 0 .. nb : Pow(2, e) = nb

\* C30: when hashmap_init(hm, nr_buckets) has returned 0 the bucket index
\* of every key is below nr_buckets; a count that is zero or not a power of
\* two is rejected with -1 and no map is set up.
C30_BucketIndexInRange ==
    /\ hPc = "ready" => \A k \in Keys : hash_simple(hm.nr_buckets, k) < hm.nr_buckets
    /\ (hRet.op = "init" /\ ~IsPow2(hRet.key)) =>
          (hRet.ret = 0 - 1 /\ hPc = "rejected" /\ hm = NoHm)

\* the steps of a construction in the order the claim gives them, up to the
\* stepping of the placement rules
StepOrder == <<"seed", "bsp", "maze", "map", "discard", "rules">>

\* C14: a construction makes its steps once each in the order: seed set, BSP
\* tree built, maze seeded and stepped, height_map filled, BSP tree and seed
\* grid discarded, placement rules stepped; no draw that shapes the terrain
\* comes before the seed is set.
C14_StepOrder ==
    /\ Len(bLog) <= Len(StepOrder)
    /\ \A k \in 1 .. Len(bLog) : bLog[k] = StepOrder[k]

\* the configuration is malformed: no extent, or fewer vertices than the
\* generator can handle
Malformed(a) == a.side <= 0 \/ a.nr_v < 2 \/ a.nr_v < MAZE_FAC

\* generation work has been done for the running call
GenerationBegun == bPc \in {"seed", "bsp", "map", "free", "done"}

\* C12: a call with a malformed configuration (side <= 0, resolution < 2 or
\* below the maze factor) is rejected before any generation work (maze, BSP,
\* seed grid, height map) begins.
C12_MalformedRejected == Malformed(bArgs) => ~GenerationBegun


(***************************************************************************)
(* Properties of the placement list.                                       *)
(***************************************************************************)
\* the pairs <<rule, i, j>> with maze cell (i, j) holding the rule's nr_states
PlaceHits ==
    { h \in (1 .. Len(ca_instors)) \X (0 .. (t.nr_vert \div MAZE_FAC) - 1)
             \X (0 .. (t.nr_vert \div MAZE_FAC) - 1) :
        xyarray_get(maze, t.nr_vert \div MAZE_FAC, h[2], h[3]) = ca_instors[h[1]].nr_states }

\* the point the claim describes for rule r and cell (i, j): tagged with the
\* rule's name, at the cell's world centre, at the height of the vertex there
PlacePoint(r, i, j) ==
    [name |-> ca_instors[r].name,
     dx |-> t.x * QDen + ((2 * i + 1) * MAZE_FAC * t.side * QDen) \div (2 * (t.nr_vert - 1)),
     dz |-> t.z * QDen + ((2 * j + 1) * MAZE_FAC * t.side * QDen) \div (2 * (t.nr_vert - 1)),
     dy |-> Num(t.map[(MAZE_FAC * i + MAZE_FAC \div 2) * t.nr_vert
                      + MAZE_FAC * j + MAZE_FAC \div 2] * th_den(t))]

\* C13: once the placement rules are stepped and the points emitted, the
\* list holds, for each rule r, exactly one point per maze cell whose value is
\* r's nr_states and no other point; the point carries r's name, lies at the
\* cell's world centre and has the terrain's height there.
C13_Placements ==
    plPc = "done" =>
        /\ Len(instor) = Cardinality(PlaceHits)
        /\ \A h \in PlaceHits :
              Cardinality({ k \in 1 .. Len(instor) :
                              instor[k] = PlacePoint(h[1], h[2], h[3]) }) = 1

\* a finished list with a point of either rule
C13_Witness ==
    /\ plPc = "done"
    /\ \E k \in 1 .. Len(instor) : instor[k].name = ca_instors[1].name
    /\ \E k \in 1 .. Len(instor) : instor[k].name = ca_instors[2].name

====
